---- MODULE Spec2Model ----
(***************************************************************************)
(* DairyX backend: batch ledger, truck loads, sales and daily              *)
(* reconciliation, modelled as a state machine over the relational store.  *)
(* Each request handler runs in one database transaction; in the           *)
(* sequential specification Spec a handler is one atomic action.  The      *)
(* specification SpecAlloc splits truck-load allocation into its SQL       *)
(* statements to study two concurrent transactions (READ COMMITTED).       *)
(* Quantities are i32; money and NUMERIC columns only ever hold sums and   *)
(* products of small integers here, which f64 represents exactly.          *)
(***************************************************************************)
EXTENDS Integers, Sequences, FiniteSets, TLC

\* ---------------------------------------------------------------- bounds
MaxQty == 2          \* largest quantity in one delivery line
MaxLines == 1        \* most batch lines in one delivery request
MaxItems == 1        \* longest item list in one truck-load, return or sale request
MaxDeliveries == 1   \* deliveries ever created
MaxLoads == 2        \* truck loads ever created
MaxSales == 1        \* sales ever created
MaxAdjust == 1       \* manual stock adjustments ever created

\* ---------------------------------------------------------------- universe
Products == {"p1"}
Trucks == {"t1", "t2"}
BatchNumbers == {"n1", "n2"}
Dates == {1}
ExpiryDates == {1, 2}
Users == {"u1"}
NoId == 0

\* products.current_wholesale_price and products.commission_per_unit
current_wholesale_price == [p \in Products |-> 2]
commission_per_unit == [p \in Products |-> 1]
\* trucks.max_allowance_limit
max_allowance_limit == [t \in Trucks |-> 2]

VARIABLES
    deliveries,      \* set of delivery ids
    batch_receipts,  \* sequence of [batch, delivery, quantity]
    batches,         \* batch id -> [product, number, quantity, remaining, expiry]
    truck_loads,     \* load id -> [truck, date, loaded_by, status]
    truck_load_items,\* set of [load, batch, loaded, sold, returned]
    sales,           \* set of [id, truck, user, load, total, paid, date]
    sale_items,      \* set of [sale, line, batch, quantity, commission]
    stock_movements, \* set of [id, batch, type, quantity, ref_type, ref_id]
    allowances,      \* allowance date -> [total, allocated, status]
    truck_allowances,\* set of [date, truck, amount]
    recs,            \* reconciliation id -> record
    rec_items,       \* set of reconciliation item records
    serial,          \* next value of each id sequence
    last,            \* the last response: [op, status, arg]
    call,            \* SpecFifo: the request drawn by Init
    txs,             \* SpecAlloc: the two open transactions
    rowlock          \* SpecAlloc: batch id -> transaction holding its row lock

dbvars == <<deliveries, batch_receipts, batches, truck_loads, truck_load_items,
            sales, sale_items, stock_movements, allowances, truck_allowances,
            recs, rec_items, serial>>
vars == <<deliveries, batch_receipts, batches, truck_loads, truck_load_items,
          sales, sale_items, stock_movements, allowances, truck_allowances,
          recs, rec_items, serial, last, call, txs, rowlock>>

\* ---------------------------------------------------------------- helpers
Min(a, b) == IF a < b THEN a ELSE b
Abs(x) == IF x < 0 THEN -x ELSE x

RECURSIVE SumSet(_, _)
\* sum of f[x] over the finite set S (SQL SUM, COALESCEd to 0)
SumSet(S, f) ==
    IF S = {} THEN 0
    ELSE LET x == CHOOSE y \in S : TRUE IN f[x] + SumSet(S \ {x}, f)

RECURSIVE SeqsUpTo(_, _)
\* the sequences over S of length 1..n
SeqsUpTo(S, n) ==
    IF n <= 0 THEN {}
    ELSE LET shorter == SeqsUpTo(S, n - 1)
         IN {<<x>> : x \in S} \cup shorter
            \cup {Append(s, x) : s \in shorter, x \in S}

Ok(op, arg) == [op |-> op, status |-> "ok", arg |-> arg]
Err(op, status, arg) == [op |-> op, status |-> status, arg |-> arg]

\* ---------------------------------------------------------------- schema checks
\* CHECK constraints of the schema, as error.rs reports them (SQLSTATE 23514)
BatchesCheckMutant(b) == TRUE
BatchesCheck(b) == b.remaining >= 0 /\ b.remaining <= b.quantity

TruckLoadItemsCheckMutant(it) == TRUE
TruckLoadItemsCheck(it) ==
    /\ it.sold <= it.loaded
    /\ it.sold + it.returned <= it.loaded

\* FOREIGN KEY behaviour when a referenced batch row is deleted.  The schema
\* is not part of the sources: either the delete is refused (23503) or it
\* cascades to the referencing rows.
FkModes == {"restrict", "cascade"}

\* ---------------------------------------------------------------- deliveries
DeliveryLines == [number : BatchNumbers, quantity : 1..MaxQty, expiry : ExpiryDates]
DeliveryRequests == [product : Products, batches : SeqsUpTo(DeliveryLines, MaxLines)]

BatchByNumber(bs, p, n) == {i \in DOMAIN bs : bs[i].product = p /\ bs[i].number = n}

RECURSIVE ReceiveBatches(_, _, _, _)
\* the loop over item.batches of create_delivery; st = [err, batches, receipts, next]
ReceiveBatches(st, did, product, lines) ==
    IF lines = <<>> \/ st.err # "ok" THEN st
    ELSE
      LET b == Head(lines)
          ex == BatchByNumber(st.batches, product, b.number)
          rcpt(id) == [batch |-> id, delivery |-> did, quantity |-> b.quantity]
      IN IF ex # {}
         THEN LET id == CHOOSE i \in ex : TRUE
                  row == st.batches[id]
                  upd == [row EXCEPT !.quantity = @ + b.quantity,
                                     !.remaining = @ + b.quantity]
              IN IF row.expiry # b.expiry THEN [st EXCEPT !.err = "Validation"]
                 ELSE IF ~BatchesCheck(upd) THEN [st EXCEPT !.err = "Validation"]
                 ELSE ReceiveBatches(
                        [st EXCEPT !.batches[id] = upd,
                                   !.receipts = Append(@, rcpt(id))],
                        did, product, Tail(lines))
         ELSE LET id == st.next
                  row == [product |-> product, number |-> b.number,
                          quantity |-> b.quantity, remaining |-> b.quantity,
                          expiry |-> b.expiry]
              IN ReceiveBatches(
                   [st EXCEPT !.batches = @ @@ (id :> row),
                              !.receipts = Append(@, rcpt(id)),
                              !.next = @ + 1],
                   did, product, Tail(lines))

create_delivery(req) ==
    /\ LET did == serial.delivery
           st0 == [err |-> "ok", batches |-> batches,
                   receipts |-> batch_receipts, next |-> serial.batch]
           st == ReceiveBatches(st0, did, req.product, req.batches)
       IN IF req.batches = <<>> \/ \E i \in DOMAIN req.batches : req.batches[i].quantity <= 0
          THEN /\ last' = Err("create_delivery", "Validation", NoId)
               /\ UNCHANGED dbvars
          ELSE IF st.err # "ok"
          THEN /\ last' = Err("create_delivery", st.err, NoId)
               /\ UNCHANGED dbvars
          ELSE /\ deliveries' = deliveries \cup {did}
               /\ batches' = st.batches
               /\ batch_receipts' = st.receipts
               /\ serial' = [serial EXCEPT !.delivery = @ + 1, !.batch = st.next]
               /\ last' = Ok("create_delivery", NoId)
               /\ UNCHANGED <<truck_loads, truck_load_items, sales, sale_items,
                              stock_movements, allowances, truck_allowances,
                              recs, rec_items>>

BatchReferenced(items, moves, id) ==
    \/ \E it \in items : it.batch = id
    \/ \E m \in moves : m.batch = id

RECURSIVE ReverseReceipts(_, _, _)
\* the loop over receipts of delete_delivery; st = [err, batches, items, moves]
ReverseReceipts(st, rs, fk) ==
    IF rs = <<>> \/ st.err # "ok" THEN st
    ELSE
      LET r == Head(rs)
      IN IF r.batch \notin DOMAIN st.batches
         THEN [st EXCEPT !.err = "NotFound"]   \* fetch_one on UPDATE ... RETURNING
         ELSE
           LET row == st.batches[r.batch]
               upd == [row EXCEPT !.quantity = @ - r.quantity,
                                  !.remaining = @ - r.quantity]
           IN IF ~BatchesCheck(upd) THEN [st EXCEPT !.err = "Validation"]
              ELSE IF upd.quantity <= 0
              THEN IF BatchReferenced(st.items, st.moves, r.batch) /\ fk = "restrict"
                   THEN [st EXCEPT !.err = "Validation"]
                   ELSE ReverseReceipts(
                          [st EXCEPT
                             !.batches = [i \in DOMAIN @ \ {r.batch} |-> @[i]],
                             !.items = {it \in @ : it.batch # r.batch},
                             !.moves = {m \in @ : m.batch # r.batch}],
                          Tail(rs), fk)
              ELSE ReverseReceipts([st EXCEPT !.batches[r.batch] = upd], Tail(rs), fk)

delete_delivery(did, fk) ==
    /\ LET mine == SelectSeq(batch_receipts, LAMBDA r : r.delivery = did)
           locked == \E si \in sale_items : \E i \in DOMAIN mine : mine[i].batch = si.batch
           st0 == [err |-> "ok", batches |-> batches, items |-> truck_load_items,
                   moves |-> stock_movements]
           st == ReverseReceipts(st0, mine, fk)
       IN IF locked
          THEN /\ last' = Err("delete_delivery", "Conflict", NoId)
               /\ UNCHANGED dbvars
          ELSE IF st.err # "ok"
          THEN /\ last' = Err("delete_delivery", st.err, NoId)
               /\ UNCHANGED dbvars
          ELSE /\ batches' = st.batches
               /\ truck_load_items' = st.items
               /\ stock_movements' = st.moves
               /\ batch_receipts' = SelectSeq(batch_receipts, LAMBDA r : r.delivery # did)
               /\ deliveries' = deliveries \ {did}
               /\ last' = IF did \in deliveries THEN Ok("delete_delivery", NoId)
                                                ELSE Err("delete_delivery", "NotFound", NoId)
               /\ UNCHANGED <<truck_loads, sales, sale_items, allowances,
                              truck_allowances, recs, rec_items, serial>>

\* ---------------------------------------------------------------- truck loads
LoadQtys == (-1)..(MaxQty + 1)
ReturnQtys == (-1)..MaxQty
ManualItem(b, q) == [batch_id |-> b, product_id |-> "none", quantity_loaded |-> q]
FifoItem(p, q) == [batch_id |-> NoId, product_id |-> p, quantity_loaded |-> q]
LoadItemRequests(bids) ==
    {ManualItem(b, q) : b \in bids, q \in LoadQtys}
      \cup {FifoItem(p, q) : p \in Products, q \in LoadQtys}
LoadRequests(bids) == SeqsUpTo(LoadItemRequests(bids), MaxItems)

NewItem(load, b, q) == [load |-> load, batch |-> b, loaded |-> q, sold |-> 0, returned |-> 0]
HasItem(items, load, b) == \E it \in items : it.load = load /\ it.batch = b

\* st = [err, batches, items, resp]; resp lists the (batch, quantity) pairs loaded
load_specific_batch(st, load, batch_id, q) ==
    IF batch_id \notin DOMAIN st.batches THEN [st EXCEPT !.err = "NotFound"]
    ELSE
      LET b == st.batches[batch_id]
          it == NewItem(load, batch_id, q)
          upd == [b EXCEPT !.remaining = @ - q]
      IN IF b.remaining < q THEN [st EXCEPT !.err = "Validation"]
         ELSE IF ~TruckLoadItemsCheck(it) THEN [st EXCEPT !.err = "Internal"]
         ELSE IF HasItem(st.items, load, batch_id) THEN [st EXCEPT !.err = "Conflict"]
         ELSE IF ~BatchesCheck(upd) THEN [st EXCEPT !.err = "Validation"]
         ELSE [st EXCEPT !.batches[batch_id] = upd,
                         !.items = @ \cup {it},
                         !.resp = Append(@, [batch |-> batch_id, quantity |-> q])]

EarlierMutant(bs, i, j) == i < j
\* ORDER BY b.expiry_date ASC, b.created_at ASC (rows are created in id order)
Earlier(bs, i, j) ==
    \/ bs[i].expiry < bs[j].expiry
    \/ bs[i].expiry = bs[j].expiry /\ i < j

RECURSIVE SortBatches(_, _)
SortBatches(bs, S) ==
    IF S = {} THEN <<>>
    ELSE LET m == CHOOSE i \in S : \A j \in S \ {i} : Earlier(bs, i, j)
         IN <<m>> \o SortBatches(bs, S \ {m})

AvailableBatches(bs, p) ==
    {i \in DOMAIN bs : bs[i].product = p /\ bs[i].remaining > 0}

RECURSIVE FifoLoop(_, _, _, _, _)
\* the allocation loop of load_product_fifo over the rows read up front
FifoLoop(st, load, snap, order, remaining_to_load) ==
    IF order = <<>> \/ remaining_to_load = 0 \/ st.err # "ok" THEN st
    ELSE
      LET id == Head(order)
          quantity_from_this_batch == Min(remaining_to_load, snap[id].remaining)
          it == NewItem(load, id, quantity_from_this_batch)
          upd == [st.batches[id] EXCEPT !.remaining = @ - quantity_from_this_batch]
      IN IF ~TruckLoadItemsCheck(it) THEN [st EXCEPT !.err = "Validation"]
         ELSE IF HasItem(st.items, load, id) THEN [st EXCEPT !.err = "Conflict"]
         ELSE IF ~BatchesCheck(upd) THEN [st EXCEPT !.err = "Validation"]
         ELSE FifoLoop(
                [st EXCEPT !.batches[id] = upd,
                           !.items = @ \cup {it},
                           !.resp = Append(@, [batch |-> id,
                                               quantity |-> quantity_from_this_batch])],
                load, snap, Tail(order),
                remaining_to_load - quantity_from_this_batch)

InsufficientTotalMutant(total_available, total_quantity_needed) == FALSE
InsufficientTotal(total_available, total_quantity_needed) ==
    total_available < total_quantity_needed

load_product_fifo(st, load, product_id, total_quantity_needed) ==
    LET avail == AvailableBatches(st.batches, product_id)
        total_available == SumSet(avail, [i \in avail |-> st.batches[i].remaining])
    IN IF avail = {} THEN [st EXCEPT !.err = "NotFound"]
       ELSE IF InsufficientTotal(total_available, total_quantity_needed)
       THEN [st EXCEPT !.err = "Validation"]
       ELSE FifoLoop(st, load, st.batches, SortBatches(st.batches, avail),
                     total_quantity_needed)

RECURSIVE LoadItems(_, _, _)
\* the loop over req.items of create_truck_load
LoadItems(st, load, items) ==
    IF items = <<>> \/ st.err # "ok" THEN st
    ELSE
      LET item == Head(items)
          st1 == IF item.batch_id = NoId /\ item.product_id = "none"
                 THEN [st EXCEPT !.err = "Validation"]
                 ELSE IF item.batch_id # NoId /\ item.product_id # "none"
                 THEN [st EXCEPT !.err = "Validation"]
                 ELSE IF item.batch_id # NoId
                 THEN load_specific_batch(st, load, item.batch_id, item.quantity_loaded)
                 ELSE load_product_fifo(st, load, item.product_id, item.quantity_loaded)
      IN LoadItems(st1, load, Tail(items))

LoadOn(truck, date) ==
    {l \in DOMAIN truck_loads : truck_loads[l].truck = truck /\ truck_loads[l].date = date}

\* a create_truck_load whose statements are committed one by one
create_truck_loadMutant(truck, date, loaded_by, items) ==
    /\ LET id == serial.load
           st0 == [err |-> "ok", batches |-> batches, items |-> truck_load_items,
                   resp |-> <<>>]
           st == LoadItems(st0, id, items)
           err == IF items = <<>> THEN "Validation"
                  ELSE IF LoadOn(truck, date) # {} THEN "Conflict"
                  ELSE st.err
       IN IF err # "ok"
          THEN /\ last' = Err("create_truck_load", err, NoId)
               /\ IF items = <<>> \/ LoadOn(truck, date) # {}
                  THEN UNCHANGED dbvars
                  ELSE /\ truck_loads' = truck_loads @@
                              (id :> [truck |-> truck, date |-> date,
                                      loaded_by |-> loaded_by, status |-> "loaded"])
                       /\ truck_load_items' = st.items
                       /\ batches' = st.batches
                       /\ serial' = [serial EXCEPT !.load = @ + 1]
                       /\ UNCHANGED <<deliveries, batch_receipts, sales, sale_items,
                                      stock_movements, allowances, truck_allowances,
                                      recs, rec_items>>
          ELSE /\ truck_loads' = truck_loads @@
                      (id :> [truck |-> truck, date |-> date,
                              loaded_by |-> loaded_by, status |-> "loaded"])
               /\ truck_load_items' = st.items
               /\ batches' = st.batches
               /\ serial' = [serial EXCEPT !.load = @ + 1]
               /\ last' = Ok("create_truck_load", NoId)
               /\ UNCHANGED <<deliveries, batch_receipts, sales, sale_items,
                              stock_movements, allowances, truck_allowances,
                              recs, rec_items>>

\* POST /truck-loads: one transaction from the INSERT of the load to the last item
create_truck_load(truck, date, loaded_by, items) ==
    /\ LET id == serial.load
           st0 == [err |-> "ok", batches |-> batches, items |-> truck_load_items,
                   resp |-> <<>>]
           st == LoadItems(st0, id, items)
           err == IF items = <<>> THEN "Validation"
                  ELSE IF LoadOn(truck, date) # {} THEN "Conflict"
                  ELSE st.err
       IN IF err # "ok"
          THEN /\ last' = Err("create_truck_load", err, NoId)
               /\ UNCHANGED dbvars
          ELSE /\ truck_loads' = truck_loads @@
                      (id :> [truck |-> truck, date |-> date,
                              loaded_by |-> loaded_by, status |-> "loaded"])
               /\ truck_load_items' = st.items
               /\ batches' = st.batches
               /\ serial' = [serial EXCEPT !.load = @ + 1]
               /\ last' = Ok("create_truck_load", NoId)
               /\ UNCHANGED <<deliveries, batch_receipts, sales, sale_items,
                              stock_movements, allowances, truck_allowances,
                              recs, rec_items>>

\* the TruckLoadResponse built at the end of create_truck_load from the rows it
\* inserted into the load
CreatedResponse(items, id) ==
    LET mine == {it \in items : it.load = id}
        total_loaded == SumSet(mine, [it \in mine |-> it.loaded])
        total_sold == SumSet(mine, [it \in mine |-> it.sold])
        total_returned == SumSet(mine, [it \in mine |-> it.returned])
    IN [status |-> "loaded",
        items |-> {[batch |-> it.batch, loaded |-> it.loaded, sold |-> it.sold,
                    returned |-> it.returned, quantity_lost_damaged |-> 0] : it \in mine},
        total_lost_damaged |-> total_loaded - total_sold - total_returned]

\* the TruckLoadResponse of get_truck_load and of reconcile_truck_load
fetch_truck_load_by_id(loads, items, id) ==
    LET mine == {it \in items : it.load = id}
        total_loaded == SumSet(mine, [it \in mine |-> it.loaded])
        total_sold == SumSet(mine, [it \in mine |-> it.sold])
        total_returned == SumSet(mine, [it \in mine |-> it.returned])
    IN [status |-> loads[id].status,
        items |-> {[batch |-> it.batch, loaded |-> it.loaded, sold |-> it.sold,
                    returned |-> it.returned,
                    quantity_lost_damaged |->
                        IF loads[id].status = "reconciled"
                        THEN it.loaded - it.sold - it.returned
                        ELSE 0] : it \in mine},
        total_lost_damaged |-> IF loads[id].status = "reconciled"
                               THEN total_loaded - total_sold - total_returned
                               ELSE 0]

\* GET /truck-loads/{id}
get_truck_load(id) ==
    /\ last' = IF id \in DOMAIN truck_loads
               THEN Ok("get_truck_load",
                       [id |-> id,
                        body |-> fetch_truck_load_by_id(truck_loads, truck_load_items, id)])
               ELSE Err("get_truck_load", "NotFound", NoId)
    /\ UNCHANGED dbvars

\* the TruckLoadListItem rows of list_truck_loads (no filter)
ListRows(loads, items) ==
    {LET mine == {it \in items : it.load = id}
         total_loaded == SumSet(mine, [it \in mine |-> it.loaded])
         total_sold == SumSet(mine, [it \in mine |-> it.sold])
         total_returned == SumSet(mine, [it \in mine |-> it.returned])
     IN [id |-> id, status |-> loads[id].status, total_loaded |-> total_loaded,
         total_sold |-> total_sold, total_returned |-> total_returned,
         total_lost_damaged |-> total_loaded - total_sold - total_returned]
     : id \in DOMAIN loads}

\* GET /truck-loads
list_truck_loads ==
    /\ last' = Ok("list_truck_loads", ListRows(truck_loads, truck_load_items))
    /\ UNCHANGED dbvars

ReturnRequests(bids) ==
    {<<>>} \cup SeqsUpTo([batch_id : bids, quantity_returned : ReturnQtys], MaxItems)

RECURSIVE ReturnLoop(_, _, _)
\* the loop over req.returns of reconcile_truck_load; st = [err, batches, items]
ReturnLoop(st, load, returns) ==
    IF returns = <<>> \/ st.err # "ok" THEN st
    ELSE
      LET r == Head(returns)
          hit == {it \in st.items : it.load = load /\ it.batch = r.batch_id}
      IN IF hit = {} THEN [st EXCEPT !.err = "NotFound"]
         ELSE
           LET old == CHOOSE it \in hit : TRUE
               result == [old EXCEPT !.returned = r.quantity_returned]
           IN IF ~TruckLoadItemsCheck(result) THEN [st EXCEPT !.err = "Validation"]
              ELSE IF result.sold + result.returned > result.loaded
              THEN [st EXCEPT !.err = "Validation"]
              ELSE IF r.batch_id \notin DOMAIN st.batches
              THEN ReturnLoop([st EXCEPT !.items = (@ \ {old}) \cup {result}],
                              load, Tail(returns))
              ELSE
                LET upd == [st.batches[r.batch_id] EXCEPT
                              !.remaining = @ + r.quantity_returned]
                IN IF ~BatchesCheck(upd) THEN [st EXCEPT !.err = "Validation"]
                   ELSE ReturnLoop(
                          [st EXCEPT !.items = (@ \ {old}) \cup {result},
                                     !.batches[r.batch_id] = upd],
                          load, Tail(returns))

AlreadyReconciledMutant(truck_load) == FALSE
\* if truck_load.status == "reconciled"
AlreadyReconciled(truck_load) == truck_load.status = "reconciled"

\* a reconcile_truck_load whose statements are committed one by one
reconcile_truck_loadMutant(id, returns) ==
    LET st0 == [err |-> "ok", batches |-> batches, items |-> truck_load_items]
        st == ReturnLoop(st0, id, returns)
        err == IF id \notin DOMAIN truck_loads THEN "NotFound"
               ELSE IF AlreadyReconciled(truck_loads[id]) THEN "Conflict"
               ELSE st.err
    IN IF err # "ok"
       THEN /\ last' = Err("reconcile_truck_load", err, NoId)
            /\ IF err # st.err
               THEN UNCHANGED dbvars
               ELSE /\ truck_load_items' = st.items
                    /\ batches' = st.batches
                    /\ UNCHANGED <<deliveries, batch_receipts, truck_loads, sales,
                                   sale_items, stock_movements, allowances,
                                   truck_allowances, recs, rec_items, serial>>
       ELSE /\ truck_load_items' = st.items
            /\ batches' = st.batches
            /\ truck_loads' = [truck_loads EXCEPT ![id].status = "reconciled"]
            /\ last' = Ok("reconcile_truck_load", NoId)
            /\ UNCHANGED <<deliveries, batch_receipts, sales, sale_items,
                           stock_movements, allowances, truck_allowances,
                           recs, rec_items, serial>>

\* POST /truck-loads/{id}/reconcile
reconcile_truck_load(id, returns) ==
    LET st0 == [err |-> "ok", batches |-> batches, items |-> truck_load_items]
        st == ReturnLoop(st0, id, returns)
        err == IF id \notin DOMAIN truck_loads THEN "NotFound"
               ELSE IF AlreadyReconciled(truck_loads[id]) THEN "Conflict"
               ELSE st.err
    IN IF err # "ok"
       THEN /\ last' = Err("reconcile_truck_load", err, NoId)
            /\ UNCHANGED dbvars
       ELSE /\ truck_load_items' = st.items
            /\ batches' = st.batches
            /\ truck_loads' = [truck_loads EXCEPT ![id].status = "reconciled"]
            /\ last' = Ok("reconcile_truck_load", NoId)
            /\ UNCHANGED <<deliveries, batch_receipts, sales, sale_items,
                           stock_movements, allowances, truck_allowances,
                           recs, rec_items, serial>>

RECURSIVE RestoreLoop(_, _)
\* the loop over the items of delete_truck_load; st = [err, batches]
RestoreLoop(st, items) ==
    IF items = {} \/ st.err # "ok" THEN st
    ELSE
      LET item == CHOOSE it \in items : TRUE
          quantity_to_restore == item.loaded - item.returned
      IN IF quantity_to_restore > 0 /\ item.batch \in DOMAIN st.batches
         THEN LET upd == [st.batches[item.batch] EXCEPT
                            !.remaining = @ + quantity_to_restore]
              IN IF ~BatchesCheck(upd) THEN [st EXCEPT !.err = "Validation"]
                 ELSE RestoreLoop([st EXCEPT !.batches[item.batch] = upd],
                                  items \ {item})
         ELSE RestoreLoop(st, items \ {item})

delete_truck_load(id, fk) ==
    LET mine == {it \in truck_load_items : it.load = id}
        has_sales == \E s \in sales : s.load = id
        st == RestoreLoop([err |-> "ok", batches |-> batches], mine)
        referenced == \E ri \in rec_items : ri.truck_load_id = id
        err == IF has_sales THEN "Conflict"
               ELSE IF st.err # "ok" THEN st.err
               ELSE IF referenced /\ fk = "restrict" THEN "Validation"
               ELSE IF id \notin DOMAIN truck_loads THEN "NotFound"
               ELSE "ok"
    IN IF err # "ok"
       THEN /\ last' = Err("delete_truck_load", err, NoId)
            /\ UNCHANGED dbvars
       ELSE /\ batches' = st.batches
            /\ truck_load_items' = truck_load_items \ mine
            /\ truck_loads' = [l \in DOMAIN truck_loads \ {id} |-> truck_loads[l]]
            /\ rec_items' = {ri \in rec_items : ri.truck_load_id # id}
            /\ last' = Ok("delete_truck_load", NoId)
            /\ UNCHANGED <<deliveries, batch_receipts, sales, sale_items,
                           stock_movements, allowances, truck_allowances,
                           recs, serial>>

\* ---------------------------------------------------------------- sales
SalePayments == {0, 2}
SaleItemRequests == [product_id : Products, quantity : 1..MaxQty]
SaleRequests == SeqsUpTo(SaleItemRequests, MaxItems)

\* the truck load items that can cover one sale line, oldest expiry first
SaleCandidates(load, product, q) ==
    {it.batch : it \in {x \in truck_load_items :
        /\ x.load = load
        /\ x.batch \in DOMAIN batches
        /\ batches[x.batch].product = product
        /\ x.loaded - x.sold - x.returned >= q}}

RECURSIVE SaleLines(_, _, _)
\* the first loop of create_sale; st = [err, total, lines]
SaleLines(st, load, items) ==
    IF items = <<>> \/ st.err # "ok" THEN st
    ELSE
      LET item == Head(items)
          cand == SaleCandidates(load, item.product_id, item.quantity)
          unit_price == current_wholesale_price[item.product_id]
      IN IF item.quantity <= 0 THEN [st EXCEPT !.err = "Validation"]
         ELSE IF cand = {} THEN [st EXCEPT !.err = "Validation"]
         ELSE
           LET batch == Head(SortBatches(batches, cand))
               line == [batch |-> batch, quantity |-> item.quantity,
                        commission |-> item.quantity * commission_per_unit[item.product_id]]
           IN SaleLines([st EXCEPT !.total = @ + item.quantity * unit_price,
                                   !.lines = Append(@, line)],
                        load, Tail(items))

create_sale(user, load, sale_date, amount_paid, items) ==
    /\ LET st == SaleLines([err |-> "ok", total |-> 0, lines |-> <<>>], load, items)
           err == IF items = <<>> THEN "Validation"
                  ELSE IF load \notin DOMAIN truck_loads THEN "NotFound"
                  ELSE IF st.err # "ok" THEN st.err
                  ELSE IF amount_paid < 0 \/ amount_paid > st.total THEN "Validation"
                  ELSE "ok"
           id == serial.sale
       IN IF err # "ok"
          THEN /\ last' = Err("create_sale", err, NoId)
               /\ UNCHANGED dbvars
          ELSE /\ sales' = sales \cup
                      {[id |-> id, truck |-> truck_loads[load].truck, user |-> user,
                        load |-> load, total |-> st.total, paid |-> amount_paid,
                        date |-> sale_date]}
               /\ sale_items' = sale_items \cup
                      {[sale |-> id, line |-> i, batch |-> st.lines[i].batch,
                        quantity |-> st.lines[i].quantity,
                        commission |-> st.lines[i].commission] : i \in DOMAIN st.lines}
               /\ serial' = [serial EXCEPT !.sale = @ + 1]
               /\ last' = Ok("create_sale", NoId)
               /\ UNCHANGED <<deliveries, batch_receipts, batches, truck_loads,
                              truck_load_items, stock_movements, allowances,
                              truck_allowances, recs, rec_items>>

\* ---------------------------------------------------------------- stock adjustments
AdjustQtys == ((-MaxQty)..MaxQty) \ {0}

Movement(id, batch, type, quantity, ref_type, ref_id) ==
    [id |-> id, batch |-> batch, type |-> type, quantity |-> quantity,
     ref_type |-> ref_type, ref_id |-> ref_id]

\* req.quantity as i32 (quantity: f64): the cast drops the fraction, towards
\* zero.  A request quantity is written as a whole number of 1/unit.
AsI32(quantity, unit) ==
    IF quantity >= 0 THEN quantity \div unit ELSE -((-quantity) \div unit)

\* POST /stock-movements/adjustments; req.quantity = quantity / unit
create_stock_adjustment(movement_type, batch_id, product_id, quantity, unit) ==
    /\ LET found == batch_id \in DOMAIN batches
           row == batches[batch_id]
           upd == IF movement_type = "expired_out"
                  THEN [row EXCEPT !.remaining = @ - AsI32(quantity, unit)]
                  ELSE [row EXCEPT !.quantity = @ + AsI32(quantity, unit),
                                   !.remaining = @ + AsI32(quantity, unit)]
           err == IF movement_type \notin {"adjustment", "expired_out"} THEN "Validation"
                  ELSE IF movement_type = "expired_out" /\ quantity <= 0 THEN "Validation"
                  ELSE IF movement_type = "adjustment" /\ quantity = 0 THEN "Validation"
                  ELSE IF ~found THEN "NotFound"
                  ELSE IF row.product # product_id THEN "Validation"
                  ELSE IF movement_type = "expired_out"
                          /\ row.remaining < AsI32(quantity, unit)
                  THEN "Validation"
                  ELSE IF movement_type = "adjustment" /\ quantity < 0
                          /\ row.remaining < AsI32(Abs(quantity), unit)
                  THEN "Validation"
                  ELSE IF ~BatchesCheck(upd) THEN "Validation"
                  ELSE "ok"
       IN IF err # "ok"
          THEN /\ last' = Err("create_stock_adjustment", err, NoId)
               /\ UNCHANGED dbvars
          ELSE /\ batches' = [batches EXCEPT ![batch_id] = upd]
               /\ stock_movements' = stock_movements \cup
                      {Movement(serial.movement, batch_id, movement_type, quantity,
                                "manual", batch_id)}
               /\ serial' = [serial EXCEPT !.movement = @ + 1, !.adjust = @ + 1]
               /\ last' = Ok("create_stock_adjustment", NoId)
               /\ UNCHANGED <<deliveries, batch_receipts, truck_loads,
                              truck_load_items, sales, sale_items, allowances,
                              truck_allowances, recs, rec_items>>

\* ---------------------------------------------------------------- allowances
AllowanceTotals == {3}
AllowanceAmounts == {1, 2}
AllocationRequests == SeqsUpTo([truck_id : Trucks, amount : AllowanceAmounts], MaxItems)

create_allowance(date, total_allowance) ==
    LET err == IF total_allowance <= 0 THEN "Validation"
               ELSE IF date \in DOMAIN allowances THEN "Conflict"
               ELSE "ok"
    IN IF err # "ok"
       THEN /\ last' = Err("create_allowance", err, date)
            /\ UNCHANGED dbvars
       ELSE /\ allowances' = allowances @@
                   (date :> [total |-> total_allowance, allocated |-> 0,
                             status |-> "pending"])
            /\ last' = Ok("create_allowance", date)
            /\ UNCHANGED <<deliveries, batch_receipts, batches, truck_loads,
                           truck_load_items, sales, sale_items, stock_movements,
                           truck_allowances, recs, rec_items, serial>>

RECURSIVE ValidateAllocations(_, _)
\* the validation loop of allocate_to_trucks
ValidateAllocations(id, allocations) ==
    IF allocations = <<>> THEN "ok"
    ELSE LET a == Head(allocations)
         IN IF a.amount <= 0 THEN "Validation"
            ELSE IF a.amount > max_allowance_limit[a.truck_id] THEN "Validation"
            ELSE IF \E ta \in truck_allowances : ta.date = id /\ ta.truck = a.truck_id
            THEN "Conflict"
            ELSE ValidateAllocations(id, Tail(allocations))

allocate_to_trucks(id, allocations) ==
    LET total_new_allocations ==
            SumSet(DOMAIN allocations, [i \in DOMAIN allocations |-> allocations[i].amount])
        rows == {[date |-> id, truck |-> allocations[i].truck_id,
                  amount |-> allocations[i].amount] : i \in DOMAIN allocations}
        err == IF allocations = <<>> THEN "Validation"
               ELSE IF id \notin DOMAIN allowances THEN "NotFound"
               ELSE IF allowances[id].status = "finalized" THEN "Validation"
               ELSE IF allowances[id].allocated + total_new_allocations
                         > allowances[id].total THEN "Validation"
               ELSE IF ValidateAllocations(id, allocations) # "ok"
               THEN ValidateAllocations(id, allocations)
               \* two rows for one truck in one request: the second INSERT hits
               \* the (allowance, truck) unique key
               ELSE IF \E i, j \in DOMAIN allocations :
                          i # j /\ allocations[i].truck_id = allocations[j].truck_id
               THEN "Conflict"
               ELSE "ok"
    IN IF err # "ok"
       THEN /\ last' = Err("allocate_to_trucks", err, id)
            /\ UNCHANGED dbvars
       ELSE /\ truck_allowances' = truck_allowances \cup rows
            /\ allowances' = [allowances EXCEPT ![id].status = "allocated"]
            /\ last' = Ok("allocate_to_trucks", id)
            /\ UNCHANGED <<deliveries, batch_receipts, batches, truck_loads,
                           truck_load_items, sales, sale_items, stock_movements,
                           recs, rec_items, serial>>

update_truck_allocation(id, truck_id, amount) ==
    LET rows == {ta \in truck_allowances : ta.date = id /\ ta.truck = truck_id}
        current_allocation == CHOOSE ta \in rows : TRUE
        new_total_allocated ==
            allowances[id].allocated - current_allocation.amount + amount
        err == IF amount <= 0 THEN "Validation"
               ELSE IF id \notin DOMAIN allowances THEN "NotFound"
               ELSE IF allowances[id].status = "finalized" THEN "Validation"
               ELSE IF rows = {} THEN "NotFound"
               ELSE IF amount > max_allowance_limit[truck_id] THEN "Validation"
               ELSE IF new_total_allocated > allowances[id].total THEN "Validation"
               ELSE "ok"
    IN IF err # "ok"
       THEN /\ last' = Err("update_truck_allocation", err, id)
            /\ UNCHANGED dbvars
       ELSE /\ truck_allowances' =
                   (truck_allowances \ rows) \cup
                   {[ta EXCEPT !.amount = amount] : ta \in rows}
            /\ last' = Ok("update_truck_allocation", id)
            /\ UNCHANGED <<deliveries, batch_receipts, batches, truck_loads,
                           truck_load_items, sales, sale_items, stock_movements,
                           allowances, recs, rec_items, serial>>

finalize_allowance(id) ==
    IF id \notin DOMAIN allowances \/ allowances[id].status = "finalized"
    THEN /\ last' = Err("finalize_allowance", "NotFound", id)
         /\ UNCHANGED dbvars
    ELSE /\ allowances' = [allowances EXCEPT ![id].status = "finalized"]
         /\ last' = Ok("finalize_allowance", id)
         /\ UNCHANGED <<deliveries, batch_receipts, batches, truck_loads,
                        truck_load_items, sales, sale_items, stock_movements,
                        truck_allowances, recs, rec_items, serial>>

\* ---------------------------------------------------------------- reconciliation
RecFor(date) == {r \in DOMAIN recs : recs[r].date = date}
\* fetch_optional: the first row the query yields
FirstRec(date) == CHOOSE r \in RecFor(date) : \A q \in RecFor(date) : r <= q

ItemsOf(load) == {it \in truck_load_items : it.load = load}
LoadedSum(load) == SumSet(ItemsOf(load), [it \in ItemsOf(load) |-> it.loaded])

\* the rows of the truck_loads query of start_reconciliation: one row per
\* (load, s.user_id) group of the LEFT JOIN with sales; SUM(tli.quantity_loaded)
\* runs over the joined rows, so every sale of the group repeats the items
LoadRows(date) ==
    UNION {
      LET mine == {s \in sales : s.load = l /\ s.date = date}
      IN IF mine = {}
         THEN {[truck_load_id |-> l, truck |-> truck_loads[l].truck,
                driver |-> truck_loads[l].loaded_by,
                items_loaded |-> LoadedSum(l)]}
         ELSE {[truck_load_id |-> l, truck |-> truck_loads[l].truck,
                driver |-> u,
                items_loaded |-> Cardinality({s \in mine : s.user = u}) * LoadedSum(l)]
               : u \in {s.user : s \in mine}}
      : l \in {x \in DOMAIN truck_loads : truck_loads[x].date = date}}

\* the sales_data query: sales of the truck on the date LEFT JOIN sale_items;
\* a sale without items yields one row, a sale with n items yields n rows
SaleRowCount(s) ==
    LET n == Cardinality({si \in sale_items : si.sale = s.id})
    IN IF n = 0 THEN 1 ELSE n
SalesData(truck, date) ==
    LET ss == {s \in sales : s.truck = truck /\ s.date = date}
        sis == {si \in sale_items : \E s \in ss : si.sale = s.id}
    IN [items_sold |-> SumSet(sis, [si \in sis |-> si.quantity]),
        commission |-> SumSet(sis, [si \in sis |->
             IF si.batch \in DOMAIN batches
             THEN si.quantity * commission_per_unit[batches[si.batch].product]
             ELSE 0]),
        sales_amount |-> SumSet(ss, [s \in ss |-> SaleRowCount(s) * s.total]),
        payments |-> SumSet(ss, [s \in ss |-> SaleRowCount(s) * s.paid])]

AllowanceFor(date, truck) ==
    LET rows == {ta \in truck_allowances : ta.date = date /\ ta.truck = truck}
    IN IF rows = {} THEN 0 ELSE (CHOOSE ta \in rows : TRUE).amount

NewRecItem(rec, row, date) ==
    LET sd == SalesData(row.truck, date)
    IN [rec |-> rec, truck |-> row.truck, driver |-> row.driver,
        truck_load_id |-> row.truck_load_id,
        items_loaded |-> row.items_loaded, items_sold |-> sd.items_sold,
        items_returned |-> 0, items_discarded |-> 0,
        sales_amount |-> sd.sales_amount, commission_earned |-> sd.commission,
        allowance_received |-> AllowanceFor(date, row.truck),
        payments_collected |-> sd.payments,
        pending_payments |-> sd.sales_amount - sd.payments,
        is_verified |-> FALSE, has_discrepancy |-> FALSE]

NewRec(date, trucks_out) ==
    [date |-> date, status |-> "in_progress", trucks_out |-> trucks_out,
     trucks_verified |-> 0,
     total_items_loaded |-> 0, total_items_sold |-> 0, total_items_returned |-> 0,
     total_items_discarded |-> 0, total_sales_amount |-> 0,
     total_commission_earned |-> 0, total_allowance_allocated |-> 0,
     total_payments_collected |-> 0, pending_payments |-> 0, net_profit |-> 0,
     finalized_by |-> "none"]

ReconciliationExistsMutant(date) == FALSE
\* SELECT id FROM daily_reconciliations WHERE reconciliation_date = $1
ReconciliationExists(date) == RecFor(date) # {}

start_reconciliation(date) ==
    LET exists == ReconciliationExists(date)
        trucks_out == Cardinality({truck_loads[l].truck :
                         l \in {x \in DOMAIN truck_loads : truck_loads[x].date = date}})
        id == serial.rec
    IN IF exists
       THEN /\ last' = Err("start_reconciliation", "Conflict", date)
            /\ UNCHANGED dbvars
       ELSE /\ recs' = recs @@ (id :> NewRec(date, trucks_out))
            /\ rec_items' = rec_items \cup
                   {NewRecItem(id, row, date) : row \in LoadRows(date)}
            /\ serial' = [serial EXCEPT !.rec = @ + 1]
            /\ last' = Ok("start_reconciliation", date)
            /\ UNCHANGED <<deliveries, batch_receipts, batches, truck_loads,
                           truck_load_items, sales, sale_items, stock_movements,
                           allowances, truck_allowances>>

\* CHECK valid_stock_balance on reconciliation_items: "items_loaded must equal
\* (items_sold + items_returned + items_discarded) when verified".  Its
\* definition is not part of the sources, so whether it rejects a row that
\* records a discrepancy is left open (enforced is chosen by the environment).
ValidStockBalance(ri, enforced) ==
    enforced /\ ri.is_verified =>
        ri.items_loaded = ri.items_sold + ri.items_returned + ri.items_discarded

SumSeq(q) == SumSet(DOMAIN q, [i \in DOMAIN q |-> q[i]])

VerifyQtys == SeqsUpTo(0..MaxQty, MaxItems) \cup {<<>>}

HasDiscrepancyMutant(items_loaded, items_sold, total_returned, total_discarded) ==
    items_loaded - items_sold - total_returned # 0
\* (expected_return - actual_return).abs() > 0.01 on whole numbers
HasDiscrepancy(items_loaded, items_sold, total_returned, total_discarded) ==
    LET expected_return == items_loaded - items_sold
        actual_return == total_returned + total_discarded
    IN Abs(expected_return - actual_return) > 0

\* a verification that puts the returned quantity back into the batches of the load
verify_truck_returnMutant(date, truck_id, items_returned, items_discarded, enforced) ==
    LET found == RecFor(date) # {}
        rec == FirstRec(date)
        rows == {ri \in rec_items : ri.rec = rec /\ ri.truck = truck_id}
        total_returned == SumSeq(items_returned)
        total_discarded == SumSeq(items_discarded)
        err == IF ~found THEN "NotFound"
               ELSE IF recs[rec].status # "in_progress" THEN "Conflict"
               ELSE IF rows = {} THEN "NotFound"
               ELSE "ok"
    IN IF err # "ok"
       THEN /\ last' = Err("verify_truck_return", err, date)
            /\ UNCHANGED dbvars
       ELSE
         \* fetch_optional without ORDER BY: any row of the truck may come first
         \E item \in rows :
           LET upd == [item EXCEPT
                         !.items_returned = total_returned,
                         !.items_discarded = total_discarded,
                         !.is_verified = TRUE,
                         !.has_discrepancy =
                             HasDiscrepancy(item.items_loaded, item.items_sold,
                                            total_returned, total_discarded)]
               items2 == (rec_items \ {item}) \cup {upd}
           IN IF ~ValidStockBalance(upd, enforced)
              THEN /\ last' = Err("verify_truck_return", "Validation", date)
                   /\ UNCHANGED dbvars
              ELSE /\ rec_items' = items2
                   /\ recs' = [recs EXCEPT ![rec].trucks_verified =
                                 Cardinality({ri \in items2 :
                                                 ri.rec = rec /\ ri.is_verified})]
                   /\ last' = Ok("verify_truck_return", date)
                   /\ batches' = [b \in DOMAIN batches |->
                                     IF \E it \in ItemsOf(item.truck_load_id) : it.batch = b
                                     THEN [batches[b] EXCEPT !.remaining = @ + total_returned]
                                     ELSE batches[b]]
                   /\ UNCHANGED <<deliveries, batch_receipts, truck_loads,
                                  truck_load_items, sales, sale_items, stock_movements,
                                  allowances, truck_allowances, serial>>

\* POST /reconciliations/{date}/trucks/{truck_id}/verify
verify_truck_return(date, truck_id, items_returned, items_discarded, enforced) ==
    LET found == RecFor(date) # {}
        rec == FirstRec(date)
        rows == {ri \in rec_items : ri.rec = rec /\ ri.truck = truck_id}
        total_returned == SumSeq(items_returned)
        total_discarded == SumSeq(items_discarded)
        err == IF ~found THEN "NotFound"
               ELSE IF recs[rec].status # "in_progress" THEN "Conflict"
               ELSE IF rows = {} THEN "NotFound"
               ELSE "ok"
    IN IF err # "ok"
       THEN /\ last' = Err("verify_truck_return", err, date)
            /\ UNCHANGED dbvars
       ELSE
         \* fetch_optional without ORDER BY: any row of the truck may come first
         \E item \in rows :
           LET upd == [item EXCEPT
                         !.items_returned = total_returned,
                         !.items_discarded = total_discarded,
                         !.is_verified = TRUE,
                         !.has_discrepancy =
                             HasDiscrepancy(item.items_loaded, item.items_sold,
                                            total_returned, total_discarded)]
               items2 == (rec_items \ {item}) \cup {upd}
           IN IF ~ValidStockBalance(upd, enforced)
              THEN /\ last' = Err("verify_truck_return", "Validation", date)
                   /\ UNCHANGED dbvars
              ELSE /\ rec_items' = items2
                   /\ recs' = [recs EXCEPT ![rec].trucks_verified =
                                 Cardinality({ri \in items2 :
                                                 ri.rec = rec /\ ri.is_verified})]
                   /\ last' = Ok("verify_truck_return", date)
                   /\ UNCHANGED <<deliveries, batch_receipts, batches, truck_loads,
                                  truck_load_items, sales, sale_items, stock_movements,
                                  allowances, truck_allowances, serial>>

RECURSIVE SetToSeq(_)
SetToSeq(S) ==
    IF S = {} THEN <<>>
    ELSE LET x == CHOOSE y \in S : TRUE IN <<x>> \o SetToSeq(S \ {x})

\* the truck_items query of finalize_reconciliation for one reconciliation item
UnsoldItems(bs, load) ==
    {it \in ItemsOf(load) : it.batch \in DOMAIN bs /\ it.loaded - it.sold > 0}

ReturnsStockMutant(ri) == TRUE
\* if item.items_returned > 0.0
ReturnsStock(ri) == ri.items_returned > 0

RECURSIVE ReturnPostings(_, _)
\* the (batch, return_qty) pairs posted for the reconciliation items ris
ReturnPostings(bs, ris) ==
    IF ris = <<>> THEN <<>>
    ELSE LET ri == Head(ris)
             mine == IF ReturnsStock(ri)
                     THEN SetToSeq({[batch |-> it.batch, qty |-> it.loaded - it.sold,
                                     item |-> it] : it \in UnsoldItems(bs, ri.truck_load_id)})
                     ELSE <<>>
         IN mine \o ReturnPostings(bs, Tail(ris))

RECURSIVE PostReturns(_, _, _)
\* st = [err, batches, moves, next]
PostReturns(st, rec, postings) ==
    IF postings = <<>> \/ st.err # "ok" THEN st
    ELSE
      LET p == Head(postings)
          upd == [st.batches[p.batch] EXCEPT !.remaining = @ + p.qty]
      IN IF ~BatchesCheck(upd) THEN [st EXCEPT !.err = "Validation"]
         ELSE PostReturns(
                [st EXCEPT !.batches[p.batch] = upd,
                           !.moves = @ \cup {Movement(st.next, p.batch, "truck_return_in",
                                                      p.qty, "reconciliation", rec)},
                           !.next = @ + 1],
                rec, Tail(postings))

NetProfitMutant(total_commission, total_allowance) == total_commission
NetProfit(total_commission, total_allowance) == total_commission - total_allowance

Totals(items) ==
    [total_loaded |-> SumSet(items, [ri \in items |-> ri.items_loaded]),
     total_sold |-> SumSet(items, [ri \in items |-> ri.items_sold]),
     total_returned |-> SumSet(items, [ri \in items |-> ri.items_returned]),
     total_discarded |-> SumSet(items, [ri \in items |-> ri.items_discarded]),
     total_sales |-> SumSet(items, [ri \in items |-> ri.sales_amount]),
     total_commission |-> SumSet(items, [ri \in items |-> ri.commission_earned]),
     total_allowance |-> SumSet(items, [ri \in items |-> ri.allowance_received]),
     total_payments |-> SumSet(items, [ri \in items |-> ri.payments_collected]),
     total_pending |-> SumSet(items, [ri \in items |-> ri.pending_payments])]

AlreadyFinalizedMutant(rec) == FALSE
AlreadyFinalized(rec) == rec.status = "finalized"

\* the UPDATE of daily_reconciliations that closes finalize_reconciliation
FinalizedRec(rec, totals, user) ==
    [rec EXCEPT !.status = "finalized",
                !.total_items_loaded = totals.total_loaded,
                !.total_items_sold = totals.total_sold,
                !.total_items_returned = totals.total_returned,
                !.total_items_discarded = totals.total_discarded,
                !.total_sales_amount = totals.total_sales,
                !.total_commission_earned = totals.total_commission,
                !.total_allowance_allocated = totals.total_allowance,
                !.total_payments_collected = totals.total_payments,
                !.pending_payments = totals.total_pending,
                !.net_profit = NetProfit(totals.total_commission, totals.total_allowance),
                !.finalized_by = user]

finalize_reconciliation(date, user) ==
    LET found == RecFor(date) # {}
        id == FirstRec(date)
        rec == recs[id]
        items == {ri \in rec_items : ri.rec = id}
        st == PostReturns([err |-> "ok", batches |-> batches,
                           moves |-> stock_movements, next |-> serial.movement],
                          id, ReturnPostings(batches, SetToSeq(items)))
        totals == Totals(items)
        err == IF ~found THEN "NotFound"
               ELSE IF AlreadyFinalized(rec) THEN "Conflict"
               ELSE IF rec.trucks_verified < rec.trucks_out THEN "Validation"
               ELSE st.err
    IN IF err # "ok"
       THEN /\ last' = Err("finalize_reconciliation", err, date)
            /\ UNCHANGED dbvars
       ELSE /\ batches' = st.batches
            /\ stock_movements' = st.moves
            /\ serial' = [serial EXCEPT !.movement = st.next]
            /\ recs' = [recs EXCEPT ![id] = FinalizedRec(@, totals, user)]
            /\ last' = Ok("finalize_reconciliation", date)
            /\ UNCHANGED <<deliveries, batch_receipts, truck_loads, truck_load_items,
                           sales, sale_items, allowances, truck_allowances, rec_items>>

\* ---------------------------------------------------------------- Spec
NoCall == [truck |-> "none", items |-> <<>>]
NoTxs == <<>>

Init ==
    /\ deliveries = {}
    /\ batch_receipts = <<>>
    /\ batches = <<>>
    /\ truck_loads = <<>>
    /\ truck_load_items = {}
    /\ sales = {}
    /\ sale_items = {}
    /\ stock_movements = {}
    /\ allowances = <<>>
    /\ truck_allowances = {}
    /\ recs = <<>>
    /\ rec_items = {}
    /\ serial = [delivery |-> 1, batch |-> 1, load |-> 1, sale |-> 1,
                 movement |-> 1, adjust |-> 1, rec |-> 1]
    /\ last = [op |-> "init", status |-> "ok", arg |-> NoId]
    /\ call = NoCall
    /\ txs = NoTxs
    /\ rowlock = <<>>

\* ---- Spec: the batch ledger (deliveries, truck loads, adjustments, returns)
LedgerDeliveryRequests ==
    {req \in DeliveryRequests :
        \A i \in DOMAIN req.batches :
            req.batches[i].expiry = 1}
LedgerTrucks == {"t1"}
LedgerVerifyQtys == {<<>>, <<1>>}

CreateDelivery ==
    /\ serial.delivery <= MaxDeliveries
    /\ \E req \in LedgerDeliveryRequests : create_delivery(req)
DeleteDelivery == \E d \in deliveries, fk \in FkModes : delete_delivery(d, fk)
CreateTruckLoad ==
    /\ serial.load <= MaxLoads
    /\ \E t \in LedgerTrucks, d \in Dates, u \in Users,
          items \in LoadRequests(DOMAIN batches) : create_truck_load(t, d, u, items)
ReconcileTruckLoad ==
    \E l \in DOMAIN truck_loads, rs \in ReturnRequests(DOMAIN batches) :
        reconcile_truck_load(l, rs)
DeleteTruckLoad ==
    \E l \in DOMAIN truck_loads, fk \in FkModes : delete_truck_load(l, fk)
CreateStockAdjustment ==
    /\ serial.adjust <= MaxAdjust
    /\ \E ty \in {"adjustment", "expired_out"}, b \in DOMAIN batches, p \in Products,
          q \in AdjustQtys : create_stock_adjustment(ty, b, p, q, 1)
StartReconciliation == \E d \in Dates : start_reconciliation(d)
VerifyTruckReturn ==
    \E d \in Dates, t \in LedgerTrucks, rq \in LedgerVerifyQtys, enforced \in BOOLEAN :
        verify_truck_return(d, t, rq, <<>>, enforced)
FinalizeReconciliation ==
    \E d \in Dates, u \in Users : finalize_reconciliation(d, u)

Next ==
    /\ \/ CreateDelivery
       \/ DeleteDelivery
       \/ CreateTruckLoad
       \/ ReconcileTruckLoad
       \/ DeleteTruckLoad
       \/ CreateStockAdjustment
       \/ StartReconciliation
       \/ VerifyTruckReturn
       \/ FinalizeReconciliation
    /\ UNCHANGED <<call, txs, rowlock>>

Spec == Init /\ [][Next]_vars

\* ---- SpecSale: truck loads of both trucks, sales and truck-load returns
LoadTruck ==
    /\ serial.load <= MaxLoads
    /\ \E t \in Trucks, d \in Dates, u \in Users,
          items \in LoadRequests(DOMAIN batches) : create_truck_load(t, d, u, items)
CreateSale ==
    /\ serial.sale <= MaxSales
    /\ \E u \in Users, l \in DOMAIN truck_loads, d \in Dates, paid \in SalePayments,
          items \in SaleRequests : create_sale(u, l, d, paid, items)

NextSale ==
    /\ \/ CreateDelivery
       \/ LoadTruck
       \/ CreateSale
       \/ ReconcileTruckLoad
    /\ UNCHANGED <<call, txs, rowlock>>

SpecSale == Init /\ [][NextSale]_vars

\* ---- SpecRecon: the daily reconciliation of both trucks
ReconLoadRequests(bids) ==
    {items \in LoadRequests(bids) :
        \A i \in DOMAIN items : items[i].batch_id # NoId /\ items[i].quantity_loaded > 0}
LoadTruckManual ==
    /\ serial.load <= MaxLoads
    /\ \E t \in Trucks, d \in Dates, u \in Users,
          items \in ReconLoadRequests(DOMAIN batches) : create_truck_load(t, d, u, items)
VerifyTruck ==
    \E d \in Dates, t \in Trucks, rq \in VerifyQtys, dq \in LedgerVerifyQtys,
       enforced \in BOOLEAN : verify_truck_return(d, t, rq, dq, enforced)

ReconDeliveryRequests ==
    {req \in LedgerDeliveryRequests :
        \A i \in DOMAIN req.batches :
            req.batches[i].number = "n1" /\ req.batches[i].quantity = MaxQty}
DeliverStock ==
    /\ serial.delivery <= MaxDeliveries
    /\ \E req \in ReconDeliveryRequests : create_delivery(req)

NextRecon ==
    /\ \/ DeliverStock
       \/ LoadTruckManual
       \/ CreateSale
       \/ StartReconciliation
       \/ VerifyTruck
       \/ FinalizeReconciliation
    /\ UNCHANGED <<call, txs, rowlock>>

SpecRecon == Init /\ [][NextRecon]_vars

\* ---- SpecFinal: allowances and the totals of the finalized reconciliation
FinalAllocationRequests ==
    {as \in AllocationRequests : \A i \in DOMAIN as : as[i].amount = 1}
CreateAllowance ==
    \E d \in Dates, total \in AllowanceTotals : create_allowance(d, total)
AllocateToTrucks ==
    \E d \in DOMAIN allowances, as \in FinalAllocationRequests : allocate_to_trucks(d, as)
VerifyReturn ==
    \E d \in Dates, t \in Trucks, rq \in LedgerVerifyQtys, enforced \in BOOLEAN :
        verify_truck_return(d, t, rq, <<>>, enforced)

NextFinal ==
    /\ \/ DeliverStock
       \/ LoadTruckManual
       \/ CreateSale
       \/ CreateAllowance
       \/ AllocateToTrucks
       \/ StartReconciliation
       \/ VerifyReturn
       \/ FinalizeReconciliation
    /\ UNCHANGED <<call, txs, rowlock>>

SpecFinal == Init /\ [][NextFinal]_vars

\* ---- SpecFifo: one create_truck_load request against a stocked store
\* The store holds up to one batch per batch number, each received by its own
\* delivery; stock that is no longer there was written off as expired.
FifoBatchRows ==
    {b \in [product : Products, number : BatchNumbers, quantity : 1..MaxQty,
            remaining : 0..MaxQty, expiry : ExpiryDates] : b.remaining <= b.quantity}
FifoStores ==
    UNION {{bs \in [1..k -> FifoBatchRows] :
                \A i, j \in 1..k : i # j => bs[i].number # bs[j].number}
           : k \in 0..Cardinality(BatchNumbers)}
WrittenOff(bs) == {i \in DOMAIN bs : bs[i].remaining < bs[i].quantity}
WriteOffs(bs) ==
    {Movement(Cardinality({j \in WrittenOff(bs) : j <= i}), i, "expired_out",
              bs[i].quantity - bs[i].remaining, "manual", i) : i \in WrittenOff(bs)}

StockedWith(bs) ==
    /\ batches = bs
    /\ deliveries = DOMAIN bs
    /\ batch_receipts =
           [i \in DOMAIN bs |-> [batch |-> i, delivery |-> i, quantity |-> bs[i].quantity]]
    /\ stock_movements = WriteOffs(bs)
    /\ serial = [delivery |-> Len(bs) + 1, batch |-> Len(bs) + 1, load |-> 1,
                 sale |-> 1, movement |-> Cardinality(WrittenOff(bs)) + 1,
                 adjust |-> Cardinality(WrittenOff(bs)) + 1, rec |-> 1]
    /\ truck_loads = <<>>
    /\ truck_load_items = {}
    /\ sales = {}
    /\ sale_items = {}
    /\ allowances = <<>>
    /\ truck_allowances = {}
    /\ recs = <<>>
    /\ rec_items = {}
    /\ last = [op |-> "init", status |-> "ok", arg |-> NoId]

InitFifo ==
    \E bs \in FifoStores :
        /\ StockedWith(bs)
        /\ call \in [truck : Trucks, items : LoadRequests(DOMAIN bs)]
        /\ txs = NoTxs
        /\ rowlock = <<>>

LoadCall ==
    /\ \E d \in Dates, u \in Users : create_truck_load(call.truck, d, u, call.items)
    /\ UNCHANGED <<call, txs, rowlock>>

NextFifo == LoadCall

SpecFifo == InitFifo /\ [][NextFifo]_vars

\* ---- SpecLoad: one create_truck_load request of up to two items, some of them
\* invalid, against a stocked store
MissingBatch(bs) == Len(bs) + 1
MixedItemRequests(bs) ==
    {ManualItem(b, q) : b \in DOMAIN bs \cup {MissingBatch(bs)}, q \in 1..MaxQty}
      \cup {FifoItem(p, q) : p \in Products, q \in 1..MaxQty}
      \cup {[batch_id |-> NoId, product_id |-> "none", quantity_loaded |-> 1]}
      \cup {[batch_id |-> b, product_id |-> p, quantity_loaded |-> 1] :
               b \in DOMAIN bs, p \in Products}
MixedLoadRequests(bs) == SeqsUpTo(MixedItemRequests(bs), MaxItems + 1)
FullStores == {bs \in FifoStores : \A i \in DOMAIN bs : bs[i].expiry = 1}

InitLoad ==
    \E bs \in FullStores :
        /\ StockedWith(bs)
        /\ call \in [truck : LedgerTrucks, items : MixedLoadRequests(bs)]
        /\ txs = NoTxs
        /\ rowlock = <<>>

LoadMixed ==
    /\ \E d \in Dates, u \in Users : create_truck_load(call.truck, d, u, call.items)
    /\ UNCHANGED <<call, txs, rowlock>>

NextLoad == LoadMixed

SpecLoad == InitLoad /\ [][NextLoad]_vars

\* ---- SpecReturn: one truck load of a freshly stocked store, the request that
\* reconciles it (up to two entries, some of them invalid) and its deletion
FreshStores ==
    {bs \in FullStores : \A i \in DOMAIN bs : bs[i].remaining = bs[i].quantity}
ReturnLoadRequests(bs) ==
    {items \in SeqsUpTo({ManualItem(b, q) : b \in DOMAIN bs, q \in 1..MaxQty},
                        MaxItems + 1) :
        \A i, j \in DOMAIN items : i # j => items[i].batch_id # items[j].batch_id}
ReturnEntries(bs) ==
    [batch_id : DOMAIN bs \cup {MissingBatch(bs)}, quantity_returned : 0..MaxQty]
MixedReturnRequests(bs) == {<<>>} \cup SeqsUpTo(ReturnEntries(bs), MaxItems + 1)

InitReturn ==
    \E bs \in FreshStores :
        /\ StockedWith(bs)
        /\ call \in [truck : LedgerTrucks, items : ReturnLoadRequests(bs),
                     returns : MixedReturnRequests(bs)]
        /\ txs = NoTxs
        /\ rowlock = <<>>

LoadForReturn ==
    /\ serial.load <= MaxLoads
    /\ \E d \in Dates, u \in Users : create_truck_load(call.truck, d, u, call.items)
    /\ UNCHANGED <<call, txs, rowlock>>
ReturnCall ==
    /\ \E l \in DOMAIN truck_loads : reconcile_truck_load(l, call.returns)
    /\ UNCHANGED <<call, txs, rowlock>>

SellFromLoad ==
    /\ serial.sale <= MaxSales
    /\ \E u \in Users, l \in DOMAIN truck_loads, d \in Dates, items \in SaleRequests :
          create_sale(u, l, d, 0, items)
    /\ UNCHANGED <<call, txs, rowlock>>
DeleteLoad ==
    /\ \E l \in DOMAIN truck_loads, fk \in FkModes : delete_truck_load(l, fk)
    /\ UNCHANGED <<call, txs, rowlock>>

NextReturn == LoadForReturn \/ ReturnCall \/ SellFromLoad \/ DeleteLoad

SpecReturn == InitReturn /\ [][NextReturn]_vars

\* ---- SpecAdjust: stock adjustment requests with whole and fractional
\* quantities against a freshly stocked store; quantities of requests and of
\* the movements they record are counted in halves
Halves == 2
HalfQtys == (-(Halves * MaxQty + 1))..(Halves * MaxQty + 1)
InitAdjust ==
    \E bs \in FreshStores :
        /\ StockedWith(bs)
        /\ call \in [type : {"adjustment", "expired_out"},
                     batch : DOMAIN bs \cup {MissingBatch(bs)},
                     quantity : HalfQtys]
        /\ txs = NoTxs
        /\ rowlock = <<>>

AdjustCall ==
    /\ serial.adjust <= MaxAdjust + 1
    /\ \E p \in Products :
          create_stock_adjustment(call.type, call.batch, p, call.quantity, Halves)
    /\ UNCHANGED <<call, txs, rowlock>>

NextAdjust == AdjustCall

SpecAdjust == InitAdjust /\ [][NextAdjust]_vars

\* ---- SpecView: the responses that report a truck load before and after its
\* reconciliation
GetTruckLoad ==
    /\ \E l \in DOMAIN truck_loads \cup {serial.load} : get_truck_load(l)
    /\ UNCHANGED <<call, txs, rowlock>>
ListTruckLoads ==
    /\ list_truck_loads
    /\ UNCHANGED <<call, txs, rowlock>>

NextView == LoadForReturn \/ ReturnCall \/ GetTruckLoad \/ ListTruckLoads

SpecView == InitReturn /\ [][NextView]_vars

\* ---- SpecAlloc: two concurrent create_truck_load transactions on one batch
\* Each transaction loads one item for its own truck.  The statements of a
\* transaction run in program order; statements of the two transactions
\* interleave.  Isolation is READ COMMITTED: a SELECT reads the committed
\* row, an UPDATE takes the row lock, waits for a holder to finish and then
\* works on the row as committed.
Txs == {1, 2}
AllocBatch == 1
AllocStores == {bs \in FifoStores : Len(bs) = 1 /\ bs[1].remaining > 0}
AllocQtys == 1..(MaxQty + 1)
TxTruck == <<"t1", "t2">>
NewTx(kind, q) ==
    [kind |-> kind, q |-> q, pc |-> "begin", load |-> NoId, seen |-> 0, take |-> 0,
     pending |-> 0, status |-> "open"]

InitAlloc ==
    /\ \E bs \in AllocStores : StockedWith(bs)
    /\ call = NoCall
    /\ txs \in [Txs -> {NewTx(kind, q) : kind \in {"manual", "fifo"}, q \in AllocQtys}]
    /\ rowlock = <<NoId>>

\* ROLLBACK after a failed statement: nothing of the transaction is kept
Abort(t, status) ==
    /\ txs' = [txs EXCEPT ![t].pc = "done", ![t].status = status]
    /\ rowlock' = [b \in DOMAIN rowlock |-> IF rowlock[b] = t THEN NoId ELSE rowlock[b]]
    /\ last' = Err("create_truck_load", status, NoId)
    /\ UNCHANGED <<deliveries, batch_receipts, batches, truck_loads, truck_load_items,
                   sales, sale_items, stock_movements, allowances, truck_allowances,
                   recs, rec_items, serial, call>>

\* BEGIN; INSERT INTO truck_loads: the id comes from the sequence at once
TxBegin(t) ==
    /\ txs[t].pc = "begin"
    /\ txs' = [txs EXCEPT ![t].pc = "select", ![t].load = serial.load]
    /\ serial' = [serial EXCEPT !.load = @ + 1]
    /\ UNCHANGED <<deliveries, batch_receipts, batches, truck_loads, truck_load_items,
                   sales, sale_items, stock_movements, allowances, truck_allowances,
                   recs, rec_items, last, call, rowlock>>

\* the SELECT of load_specific_batch or load_product_fifo and the check on it
TxSelect(t) ==
    /\ txs[t].pc = "select"
    /\ LET remaining_quantity == batches[AllocBatch].remaining
           q == txs[t].q
           err == IF txs[t].kind = "manual"
                  THEN IF remaining_quantity < q THEN "Validation" ELSE "ok"
                  ELSE IF remaining_quantity <= 0 THEN "NotFound"
                  ELSE IF InsufficientTotal(remaining_quantity, q) THEN "Validation"
                  ELSE "ok"
       IN IF err # "ok" THEN Abort(t, err)
          ELSE /\ txs' = [txs EXCEPT ![t].pc = "insert",
                                     ![t].seen = remaining_quantity,
                                     ![t].take = IF txs[t].kind = "manual" THEN q
                                                 ELSE Min(q, remaining_quantity)]
               /\ UNCHANGED <<deliveries, batch_receipts, batches, truck_loads,
                              truck_load_items, sales, sale_items, stock_movements,
                              allowances, truck_allowances, recs, rec_items, serial,
                              last, call, rowlock>>

\* INSERT INTO truck_load_items
TxInsert(t) ==
    /\ txs[t].pc = "insert"
    /\ IF ~TruckLoadItemsCheck(NewItem(txs[t].load, AllocBatch, txs[t].take))
       THEN Abort(t, IF txs[t].kind = "manual" THEN "Internal" ELSE "Validation")
       ELSE /\ txs' = [txs EXCEPT ![t].pc = "update"]
            /\ UNCHANGED <<deliveries, batch_receipts, batches, truck_loads,
                           truck_load_items, sales, sale_items, stock_movements,
                           allowances, truck_allowances, recs, rec_items, serial,
                           last, call, rowlock>>

\* UPDATE batches SET remaining_quantity = remaining_quantity - q
TxUpdate(t) ==
    /\ txs[t].pc = "update"
    /\ rowlock[AllocBatch] \in {NoId, t}
    /\ LET upd == [batches[AllocBatch] EXCEPT !.remaining = @ - txs[t].take]
       IN IF ~BatchesCheck(upd) THEN Abort(t, "Validation")
          ELSE /\ txs' = [txs EXCEPT ![t].pc = "commit", ![t].pending = upd.remaining]
               /\ rowlock' = [rowlock EXCEPT ![AllocBatch] = t]
               /\ UNCHANGED <<deliveries, batch_receipts, batches, truck_loads,
                              truck_load_items, sales, sale_items, stock_movements,
                              allowances, truck_allowances, recs, rec_items, serial,
                              last, call>>

\* COMMIT: the rows of the transaction become visible, the lock is released
TxCommit(t) ==
    /\ txs[t].pc = "commit"
    /\ batches' = [batches EXCEPT ![AllocBatch].remaining = txs[t].pending]
    /\ truck_loads' = truck_loads @@
           (txs[t].load :> [truck |-> TxTruck[t], date |-> 1, loaded_by |-> "u1",
                            status |-> "loaded"])
    /\ truck_load_items' =
           truck_load_items \cup {NewItem(txs[t].load, AllocBatch, txs[t].take)}
    /\ txs' = [txs EXCEPT ![t].pc = "done", ![t].status = "ok"]
    /\ rowlock' = [rowlock EXCEPT ![AllocBatch] = NoId]
    /\ last' = Ok("create_truck_load", NoId)
    /\ UNCHANGED <<deliveries, batch_receipts, sales, sale_items, stock_movements,
                   allowances, truck_allowances, recs, rec_items, serial, call>>

Begin == \E t \in Txs : TxBegin(t)
Select == \E t \in Txs : TxSelect(t)
Insert == \E t \in Txs : TxInsert(t)
Update == \E t \in Txs : TxUpdate(t)
Commit == \E t \in Txs : TxCommit(t)

NextAlloc ==
    \/ Begin
    \/ Select
    \/ Insert
    \/ Update
    \/ Commit

SpecAlloc == InitAlloc /\ [][NextAlloc]_vars

\* ---- SpecStart: two concurrent start_reconciliation transactions for one date
\* Deliveries and truck loads commit between the statements of the two
\* transactions.  A transaction reads the committed rows (READ COMMITTED) and
\* its own rows become visible at COMMIT.
StartDate == 1
NewStart ==
    [pc |-> "check", checked |-> FALSE, trucks_out |-> 0, rec |-> NoId, items |-> {},
     status |-> "open"]
\* the dates of the reconciliations that transactions other than t have
\* inserted and not yet committed
PendingDates(t) == {StartDate : u \in {x \in Txs \ {t} : txs[x].pc \in {"items", "commit"}}}
CommittedDates == {recs[r].date : r \in DOMAIN recs}

ReconciliationDateKeyMutant(dates, date) == TRUE
\* UNIQUE (reconciliation_date) on daily_reconciliations
ReconciliationDateKey(dates, date) == date \notin dates

InitStart ==
    /\ StockedWith(<<>>)
    /\ call = NoCall
    /\ txs = [t \in Txs |-> NewStart]
    /\ rowlock = <<>>

StartAbort(t, status) ==
    /\ txs' = [txs EXCEPT ![t].pc = "done", ![t].status = status]
    /\ last' = Err("start_reconciliation", status, StartDate)
    /\ UNCHANGED <<deliveries, batch_receipts, batches, truck_loads, truck_load_items,
                   sales, sale_items, stock_movements, allowances, truck_allowances,
                   recs, rec_items, serial, call, rowlock>>

\* SELECT EXISTS(SELECT 1 FROM daily_reconciliations WHERE reconciliation_date = $1)
StartCheck(t) ==
    /\ txs[t].pc = "check"
    /\ IF ReconciliationExists(StartDate) THEN StartAbort(t, "Conflict")
       ELSE /\ txs' = [txs EXCEPT ![t].pc = "count", ![t].checked = TRUE]
            /\ UNCHANGED <<deliveries, batch_receipts, batches, truck_loads,
                           truck_load_items, sales, sale_items, stock_movements,
                           allowances, truck_allowances, recs, rec_items, serial,
                           last, call, rowlock>>

\* SELECT COUNT(DISTINCT truck_id) FROM truck_loads WHERE load_date = $1
StartCount(t) ==
    /\ txs[t].pc = "count"
    /\ txs' = [txs EXCEPT
                 ![t].pc = "insert",
                 ![t].trucks_out = Cardinality({truck_loads[l].truck :
                     l \in {x \in DOMAIN truck_loads : truck_loads[x].date = StartDate}})]
    /\ UNCHANGED <<deliveries, batch_receipts, batches, truck_loads, truck_load_items,
                   sales, sale_items, stock_movements, allowances, truck_allowances,
                   recs, rec_items, serial, last, call, rowlock>>

\* INSERT INTO daily_reconciliations: waits for an uncommitted row with the
\* same key, fails with 23505 (Conflict) against a committed one
StartInsert(t) ==
    /\ txs[t].pc = "insert"
    /\ ReconciliationDateKey(PendingDates(t), StartDate)
    /\ IF ~ReconciliationDateKey(CommittedDates, StartDate) THEN StartAbort(t, "Conflict")
       ELSE /\ txs' = [txs EXCEPT ![t].pc = "items", ![t].rec = serial.rec]
            /\ serial' = [serial EXCEPT !.rec = @ + 1]
            /\ UNCHANGED <<deliveries, batch_receipts, batches, truck_loads,
                           truck_load_items, sales, sale_items, stock_movements,
                           allowances, truck_allowances, recs, rec_items, last, call,
                           rowlock>>

\* the truck_loads query and the INSERTs into reconciliation_items
StartItems(t) ==
    /\ txs[t].pc = "items"
    /\ txs' = [txs EXCEPT
                 ![t].pc = "commit",
                 ![t].items = {NewRecItem(txs[t].rec, row, StartDate) :
                                 row \in LoadRows(StartDate)}]
    /\ UNCHANGED <<deliveries, batch_receipts, batches, truck_loads, truck_load_items,
                   sales, sale_items, stock_movements, allowances, truck_allowances,
                   recs, rec_items, serial, last, call, rowlock>>

StartCommit(t) ==
    /\ txs[t].pc = "commit"
    /\ recs' = recs @@ (txs[t].rec :> NewRec(StartDate, txs[t].trucks_out))
    /\ rec_items' = rec_items \cup txs[t].items
    /\ txs' = [txs EXCEPT ![t].pc = "done", ![t].status = "ok"]
    /\ last' = Ok("start_reconciliation", StartDate)
    /\ UNCHANGED <<deliveries, batch_receipts, batches, truck_loads, truck_load_items,
                   sales, sale_items, stock_movements, allowances, truck_allowances,
                   serial, call, rowlock>>

CheckExisting == \E t \in Txs : StartCheck(t)
CountTrucks == \E t \in Txs : StartCount(t)
InsertReconciliation == \E t \in Txs : StartInsert(t)
InsertItems == \E t \in Txs : StartItems(t)
CommitStart == \E t \in Txs : StartCommit(t)

NextStart ==
    \/ (DeliverStock /\ UNCHANGED <<call, txs, rowlock>>)
    \/ (LoadTruckManual /\ UNCHANGED <<call, txs, rowlock>>)
    \/ CheckExisting
    \/ CountTrucks
    \/ InsertReconciliation
    \/ InsertItems
    \/ CommitStart

SpecStart == InitStart /\ [][NextStart]_vars

\* ---- SpecClose: two concurrent finalize_reconciliation transactions for
\* one date.  Stock is delivered, loaded, and the reconciliation started and
\* verified before the first of them begins.  Isolation is READ COMMITTED: the
\* SELECT of the reconciliation takes no lock; an UPDATE of a batch or of the
\* reconciliation row waits while the other transaction holds that row, then
\* works on the row as committed.
NewClose == [pc |-> "read", rec |-> NoId, postings |-> <<>>, status |-> "open"]
InitClose ==
    /\ StockedWith(<<>>)
    /\ call = NoCall
    /\ txs = [t \in Txs |-> NewClose]
    /\ rowlock = <<>>
NotClosing == \A t \in Txs : txs[t].pc = "read"
Prepare ==
    /\ NotClosing
    /\ \/ DeliverStock
       \/ LoadTruckManual
       \/ StartReconciliation
       \/ VerifyReturn
    /\ UNCHANGED <<call, txs, rowlock>>

CloseAbort(t, status) ==
    /\ txs' = [txs EXCEPT ![t].pc = "done", ![t].status = status]
    /\ last' = Err("finalize_reconciliation", status, StartDate)
    /\ UNCHANGED <<dbvars, call, rowlock>>
\* the batch rows and the reconciliation row that transactions other than t
\* have updated and not yet committed
HeldBatches(t) ==
    UNION {{txs[u].postings[i].batch : i \in DOMAIN txs[u].postings}
           : u \in {x \in Txs \ {t} : txs[x].pc \in {"update", "commit"}}}
HeldRecs(t) == {txs[u].rec : u \in {x \in Txs \ {t} : txs[x].pc = "commit"}}

\* SELECT ... FROM daily_reconciliations, the status and trucks_verified tests
CloseRead(t) ==
    /\ txs[t].pc = "read"
    /\ IF RecFor(StartDate) = {} THEN CloseAbort(t, "NotFound")
       ELSE IF AlreadyFinalized(recs[FirstRec(StartDate)]) THEN CloseAbort(t, "Conflict")
       ELSE IF recs[FirstRec(StartDate)].trucks_verified
                 < recs[FirstRec(StartDate)].trucks_out
       THEN CloseAbort(t, "Validation")
       ELSE /\ txs' = [txs EXCEPT ![t].pc = "post", ![t].rec = FirstRec(StartDate)]
            /\ UNCHANGED <<dbvars, last, call, rowlock>>
\* the return loop: UPDATE batches and INSERT INTO stock_movements
ClosePost(t) ==
    /\ txs[t].pc = "post"
    /\ LET items == {ri \in rec_items : ri.rec = txs[t].rec}
           postings == ReturnPostings(batches, SetToSeq(items))
           st == PostReturns([err |-> "ok", batches |-> batches,
                              moves |-> stock_movements, next |-> serial.movement],
                             txs[t].rec, postings)
       IN /\ {postings[i].batch : i \in DOMAIN postings} \cap HeldBatches(t) = {}
          /\ IF st.err # "ok" THEN CloseAbort(t, st.err)
             ELSE /\ txs' = [txs EXCEPT ![t].pc = "update", ![t].postings = postings]
                  /\ UNCHANGED <<dbvars, last, call, rowlock>>
\* UPDATE daily_reconciliations SET status = 'finalized', ... WHERE id = $12
CloseUpdate(t) ==
    /\ txs[t].pc = "update"
    /\ txs[t].rec \notin HeldRecs(t)
    /\ txs' = [txs EXCEPT ![t].pc = "commit"]
    /\ UNCHANGED <<dbvars, last, call, rowlock>>
\* COMMIT: the rows of the transaction become visible, its locks are released
CloseCommit(t) ==
    /\ txs[t].pc = "commit"
    /\ LET items == {ri \in rec_items : ri.rec = txs[t].rec}
           st == PostReturns([err |-> "ok", batches |-> batches,
                              moves |-> stock_movements, next |-> serial.movement],
                             txs[t].rec, txs[t].postings)
       IN /\ batches' = st.batches
          /\ stock_movements' = st.moves
          /\ serial' = [serial EXCEPT !.movement = st.next]
          /\ recs' = [recs EXCEPT ![txs[t].rec] = FinalizedRec(@, Totals(items), "u1")]
    /\ txs' = [txs EXCEPT ![t].pc = "done", ![t].status = "ok"]
    /\ last' = Ok("finalize_reconciliation", StartDate)
    /\ UNCHANGED <<deliveries, batch_receipts, truck_loads, truck_load_items, sales,
                   sale_items, allowances, truck_allowances, rec_items, call, rowlock>>

ReadReconciliation == \E t \in Txs : CloseRead(t)
PostStockReturns == \E t \in Txs : ClosePost(t)
UpdateReconciliation == \E t \in Txs : CloseUpdate(t)
CommitClose == \E t \in Txs : CloseCommit(t)

NextClose ==
    \/ Prepare
    \/ ReadReconciliation
    \/ PostStockReturns
    \/ UpdateReconciliation
    \/ CommitClose

SpecClose == InitClose /\ [][NextClose]_vars

\* ---- SpecVerify: two concurrent verify_truck_return transactions, one per
\* truck, on the reconciliation of one date (READ COMMITTED).  The count
\* subquery of the closing UPDATE reads with the snapshot taken when that
\* statement starts; the UPDATE then waits for the reconciliation row while
\* the other transaction holds it.
NewVerify ==
    [pc |-> "read", rec |-> NoId, item |-> NoCall, upd |-> NoCall, count |-> 0,
     status |-> "open"]
InitVerify ==
    /\ StockedWith(<<>>)
    /\ call = NoCall
    /\ txs = [t \in Txs |-> NewVerify]
    /\ rowlock = <<>>
NotVerifying == \A t \in Txs : txs[t].pc = "read"
PrepareVerify ==
    /\ NotVerifying
    /\ \/ DeliverStock
       \/ LoadTruckManual
       \/ StartReconciliation
    /\ UNCHANGED <<call, txs, rowlock>>

VerifyAbort(t, status) ==
    /\ txs' = [txs EXCEPT ![t].pc = "done", ![t].status = status]
    /\ last' = Err("verify_truck_return", status, StartDate)
    /\ UNCHANGED <<dbvars, call, rowlock>>
\* the two SELECTs: the reconciliation of the date and the item of the truck
VerifyRead(t) ==
    /\ txs[t].pc = "read"
    /\ LET rec == FirstRec(StartDate)
           rows == {ri \in rec_items : ri.rec = rec /\ ri.truck = TxTruck[t]}
       IN IF RecFor(StartDate) = {} THEN VerifyAbort(t, "NotFound")
          ELSE IF recs[rec].status # "in_progress" THEN VerifyAbort(t, "Conflict")
          ELSE IF rows = {} THEN VerifyAbort(t, "NotFound")
          ELSE \E item \in rows :
                 /\ txs' = [txs EXCEPT ![t].pc = "item", ![t].rec = rec,
                                       ![t].item = item]
                 /\ UNCHANGED <<dbvars, last, call, rowlock>>
\* UPDATE reconciliation_items ... WHERE id = $6
VerifyItem(t) ==
    /\ txs[t].pc = "item"
    /\ \E rq \in LedgerVerifyQtys, enforced \in BOOLEAN :
         LET item == txs[t].item
             upd == [item EXCEPT
                       !.items_returned = SumSeq(rq),
                       !.items_discarded = 0,
                       !.is_verified = TRUE,
                       !.has_discrepancy =
                           HasDiscrepancy(item.items_loaded, item.items_sold,
                                          SumSeq(rq), 0)]
         IN IF ~ValidStockBalance(upd, enforced) THEN VerifyAbort(t, "Validation")
            ELSE /\ txs' = [txs EXCEPT ![t].pc = "count", ![t].upd = upd]
                 /\ UNCHANGED <<dbvars, last, call, rowlock>>
\* UPDATE daily_reconciliations SET trucks_verified = (SELECT COUNT(*) ...):
\* the statement starts and its subquery counts the verified items it sees,
\* the committed ones and the transaction's own
VerifyCount(t) ==
    /\ txs[t].pc = "count"
    /\ LET seen == (rec_items \ {txs[t].item}) \cup {txs[t].upd}
       IN txs' = [txs EXCEPT ![t].pc = "lock",
                    ![t].count = Cardinality({ri \in seen :
                                   ri.rec = txs[t].rec /\ ri.is_verified})]
    /\ UNCHANGED <<dbvars, last, call, rowlock>>
\* the row of daily_reconciliations is updated once no other transaction
\* holds it
VerifyLock(t) ==
    /\ txs[t].pc = "lock"
    /\ \A u \in Txs \ {t} : txs[u].pc # "commit"
    /\ txs' = [txs EXCEPT ![t].pc = "commit"]
    /\ UNCHANGED <<dbvars, last, call, rowlock>>
VerifyCommit(t) ==
    /\ txs[t].pc = "commit"
    /\ rec_items' = (rec_items \ {txs[t].item}) \cup {txs[t].upd}
    /\ recs' = [recs EXCEPT ![txs[t].rec].trucks_verified = txs[t].count]
    /\ txs' = [txs EXCEPT ![t].pc = "done", ![t].status = "ok"]
    /\ last' = Ok("verify_truck_return", StartDate)
    /\ UNCHANGED <<deliveries, batch_receipts, batches, truck_loads, truck_load_items,
                   sales, sale_items, stock_movements, allowances, truck_allowances,
                   serial, call, rowlock>>

ReadItem == \E t \in Txs : VerifyRead(t)
UpdateItem == \E t \in Txs : VerifyItem(t)
CountVerified == \E t \in Txs : VerifyCount(t)
LockReconciliation == \E t \in Txs : VerifyLock(t)
CommitVerify == \E t \in Txs : VerifyCommit(t)

NextVerify ==
    \/ PrepareVerify
    \/ ReadItem
    \/ UpdateItem
    \/ CountVerified
    \/ LockReconciliation
    \/ CommitVerify

SpecVerify == InitVerify /\ [][NextVerify]_vars

\* ---- SpecAllowance: the daily allowance and its truck allocations
UpdateAmounts == 0..(MaxQty + 1)
BudgetTotals == 0..(MaxQty + 1)
OpenAllowance ==
    \E d \in Dates, total \in BudgetTotals : create_allowance(d, total)
AllocateAny ==
    \E d \in Dates, as \in AllocationRequests : allocate_to_trucks(d, as)
UpdateTruckAllocation ==
    \E d \in Dates, t \in Trucks, a \in UpdateAmounts : update_truck_allocation(d, t, a)
FinalizeAllowance == \E d \in Dates : finalize_allowance(d)

NextAllowance ==
    /\ \/ OpenAllowance
       \/ AllocateAny
       \/ UpdateTruckAllocation
       \/ FinalizeAllowance
    /\ UNCHANGED <<call, txs, rowlock>>

SpecAllowance == Init /\ [][NextAllowance]_vars

\* ---- SpecSell: one sale request against the load of a truck stocked from
\* a store of up to two batches
InitSell ==
    \E bs \in FifoStores :
        /\ StockedWith(bs)
        /\ call \in [truck : LedgerTrucks, items : SaleRequests]
        /\ txs = NoTxs
        /\ rowlock = <<>>
SellLoads == {l \in DOMAIN truck_loads : truck_loads[l].truck = call.truck}
LoadStocked ==
    /\ serial.load <= MaxLoads
    /\ \E t \in LedgerTrucks, d \in Dates, u \in Users,
          items \in LoadRequests(DOMAIN batches) : create_truck_load(t, d, u, items)
    /\ UNCHANGED <<call, txs, rowlock>>
SellCall ==
    /\ serial.sale <= MaxSales
    /\ \E u \in Users, l \in SellLoads, d \in Dates : create_sale(u, l, d, 0, call.items)
    /\ UNCHANGED <<call, txs, rowlock>>

NextSell == LoadStocked \/ SellCall

SpecSell == InitSell /\ [][NextSell]_vars

\* ---- SpecCrew: one truck whose load is sold from by two users
\* (sale.rs 24-44: the driver of the load, and any user who is not a driver)
Sellers == {"u1", "u2"}
CrewSaleRequests == SeqsUpTo(SaleItemRequests, MaxItems + 1)
CrewSale ==
    /\ serial.sale <= MaxSales + 1
    /\ \E u \in Sellers, l \in DOMAIN truck_loads, d \in Dates, paid \in SalePayments,
          items \in CrewSaleRequests : create_sale(u, l, d, paid, items)
LoadCrewTruck ==
    /\ serial.load <= MaxLoads
    /\ \E t \in LedgerTrucks, d \in Dates, u \in Users,
          items \in ReconLoadRequests(DOMAIN batches) : create_truck_load(t, d, u, items)

VerifyCrewTruck ==
    \E d \in Dates, t \in LedgerTrucks, rq \in LedgerVerifyQtys, dq \in LedgerVerifyQtys,
       enforced \in BOOLEAN : verify_truck_return(d, t, rq, dq, enforced)

NextCrew ==
    /\ \/ DeliverStock
       \/ LoadCrewTruck
       \/ CrewSale
       \/ StartReconciliation
       \/ VerifyCrewTruck
       \/ FinalizeReconciliation
    /\ UNCHANGED <<call, txs, rowlock>>

SpecCrew == Init /\ [][NextCrew]_vars

\* ---------------------------------------------------------------- ledger properties
\* C1: every batch row has 0 <= remaining_quantity <= quantity in every state
\* reached by deliveries, truck loads, returns, deletions, adjustments and
\* reconciliation finalisation.
C1_RemainingWithinQuantity ==
    \A b \in DOMAIN batches :
        batches[b].remaining >= 0 /\ batches[b].remaining <= batches[b].quantity

\* a batch whose loaded stock has all come back through reconcile_truck_load
C1_Witness ==
    \E it \in truck_load_items :
        /\ it.returned > 0
        /\ it.batch \in DOMAIN batches
        /\ batches[it.batch].remaining = batches[it.batch].quantity
        /\ truck_loads[it.load].status = "reconciled"

\* the signed quantity of one stock movement
Signed(m) ==
    IF m.type \in {"delivery_in", "truck_return_in"} THEN m.quantity
    ELSE IF m.type \in {"truck_load_out", "sale_out", "expired_out"} THEN -m.quantity
    ELSE m.quantity
MovementsOf(b) == {m \in stock_movements : m.batch = b}
ReceiptsOf(b) == {i \in DOMAIN batch_receipts : batch_receipts[i].batch = b}
\* the quantity the batch was received with
Received(b) == SumSet(ReceiptsOf(b), [i \in ReceiptsOf(b) |-> batch_receipts[i].quantity])

\* C2: for every batch, remaining_quantity equals the received quantity plus
\* the signed sum of the stock movements recorded for the batch.
C2_LedgerBalance ==
    \A b \in DOMAIN batches :
        batches[b].remaining
            = Received(b) + SumSet(MovementsOf(b), [m \in MovementsOf(b) |-> Signed(m)])

\* C7: a finalize_reconciliation call on a date whose reconciliation is
\* already finalized answers Conflict and leaves every table as it was.
C7_FinalizeTwiceConflict ==
    [][(/\ last'.op = "finalize_reconciliation"
        /\ RecFor(last'.arg) # {}
        /\ recs[FirstRec(last'.arg)].status = "finalized")
       => (last'.status = "Conflict" /\ UNCHANGED dbvars)]_vars

C7_Witness ==
    /\ last.op = "finalize_reconciliation"
    /\ last.status = "Conflict"
    /\ RecFor(last.arg) # {}
    /\ recs[FirstRec(last.arg)].status = "finalized"
    /\ recs[FirstRec(last.arg)].total_items_loaded > 0

\* C10: a start_reconciliation call for a date that already has a
\* reconciliation answers Conflict and creates no reconciliation and no
\* reconciliation item; each date has at most one reconciliation.
C10_StartTwiceConflict ==
    [][/\ (last'.op = "start_reconciliation" /\ RecFor(last'.arg) # {})
            => (/\ last'.status = "Conflict"
                /\ recs' = recs
                /\ rec_items' = rec_items
                /\ UNCHANGED dbvars)
       /\ \A d \in Dates : Cardinality({r \in DOMAIN recs' : recs'[r].date = d}) <= 1]_vars

C10_Witness ==
    /\ last.op = "start_reconciliation"
    /\ last.status = "Conflict"
    /\ Cardinality(RecFor(last.arg)) = 1
    /\ \E ri \in rec_items : ri.rec = FirstRec(last.arg)

\* ---------------------------------------------------------------- truck load items
\* C3: every truck load item has quantity_sold + quantity_returned <=
\* quantity_loaded in every state reached by truck loads, sales and returns.
C3_SoldReturnedWithinLoaded ==
    \A it \in truck_load_items : it.sold + it.returned <= it.loaded

\* an item returned in full on a load that also carries a sale
C3_Witness ==
    \E it \in truck_load_items :
        /\ it.loaded > 0
        /\ it.returned = it.loaded
        /\ \E s \in sales : s.load = it.load

\* ---------------------------------------------------------------- reconciliation
\* C8: a verified reconciliation item has has_discrepancy set exactly when
\* items_loaded - items_sold differs from items_returned + items_discarded.
C8_DiscrepancyFlag ==
    \A ri \in rec_items :
        ri.is_verified =>
            (ri.has_discrepancy
                <=> (ri.items_loaded - ri.items_sold
                        # ri.items_returned + ri.items_discarded))

\* a verified item whose discarded units alone balance the unsold stock
C8_Witness ==
    \E ri \in rec_items :
        /\ ri.is_verified
        /\ ~ri.has_discrepancy
        /\ ri.items_sold > 0
        /\ ri.items_discarded > 0
        /\ ri.items_returned = 0

\* C9: a successful finalize_reconciliation stores in every total field the
\* sum of that field over the reconciliation items of the date, and stores
\* net_profit = total_commission_earned - total_allowance_allocated.
C9_FinalizeTotals ==
    [][(last'.op = "finalize_reconciliation" /\ last'.status = "ok")
       => LET id == FirstRec(last'.arg)
              items == {ri \in rec_items' : ri.rec = id}
              r == recs'[id]
          IN /\ r.status = "finalized"
             /\ r.total_items_loaded = SumSet(items, [ri \in items |-> ri.items_loaded])
             /\ r.total_items_sold = SumSet(items, [ri \in items |-> ri.items_sold])
             /\ r.total_items_returned = SumSet(items, [ri \in items |-> ri.items_returned])
             /\ r.total_items_discarded = SumSet(items, [ri \in items |-> ri.items_discarded])
             /\ r.total_sales_amount = SumSet(items, [ri \in items |-> ri.sales_amount])
             /\ r.total_commission_earned
                    = SumSet(items, [ri \in items |-> ri.commission_earned])
             /\ r.total_allowance_allocated
                    = SumSet(items, [ri \in items |-> ri.allowance_received])
             /\ r.total_payments_collected
                    = SumSet(items, [ri \in items |-> ri.payments_collected])
             /\ r.pending_payments = SumSet(items, [ri \in items |-> ri.pending_payments])
             /\ r.net_profit = r.total_commission_earned - r.total_allowance_allocated]_vars

\* a finalized reconciliation of two trucks with commission and allowances
C9_Witness ==
    /\ last.op = "finalize_reconciliation"
    /\ last.status = "ok"
    /\ \E id \in DOMAIN recs :
        /\ recs[id].status = "finalized"
        /\ Cardinality({ri \in rec_items : ri.rec = id}) = 2
        /\ recs[id].total_commission_earned > 0
        /\ recs[id].total_allowance_allocated = 2
        /\ recs[id].net_profit = recs[id].total_commission_earned - 2

\* ---------------------------------------------------------------- FIFO allocation
\* the request of SpecFifo is a single FIFO item for product p
FifoRequest(p) ==
    /\ Len(call.items) = 1
    /\ call.items[1].batch_id = NoId
    /\ call.items[1].product_id = p
\* the step answers the request and the truck has no load yet
FifoAnswered == last'.op = "create_truck_load" /\ truck_loads = <<>>
BatchesOf(p) == {i \in DOMAIN batches : batches[i].product = p}
TotalRemaining(p) == SumSet(BatchesOf(p), [i \in BatchesOf(p) |-> batches[i].remaining])
Taken(i) == batches[i].remaining - batches'[i].remaining
\* ascending (expiry_date, created_at)
Before(i, j) ==
    \/ batches[i].expiry < batches[j].expiry
    \/ batches[i].expiry = batches[j].expiry /\ i < j

\* C4: a successful FIFO load of q units takes the stock in ascending
\* (expiry_date, created_at) order: a later batch gives a unit only when every
\* earlier batch is down to zero, the quantities taken sum to q, and each
\* batch's remaining_quantity falls by the quantity of its truck load item.
C4_FifoOrder ==
    [][\A p \in Products :
        (FifoRequest(p) /\ FifoAnswered /\ last'.status = "ok")
        => /\ DOMAIN batches' = DOMAIN batches
           /\ \A i \in DOMAIN batches :
                 /\ Taken(i) >= 0
                 /\ batches'[i].remaining >= 0
                 /\ batches'[i].quantity = batches[i].quantity
                 /\ i \notin BatchesOf(p) => Taken(i) = 0
           /\ SumSet(BatchesOf(p), [i \in BatchesOf(p) |-> Taken(i)])
                 = call.items[1].quantity_loaded
           /\ \A i, j \in BatchesOf(p) :
                 (Before(i, j) /\ Taken(j) > 0) => batches'[i].remaining = 0
           /\ truck_load_items' =
                 {NewItem(1, i, Taken(i)) : i \in {j \in BatchesOf(p) : Taken(j) > 0}}]_vars

\* a load split over two batches, the one created later expiring first
C4_Witness ==
    /\ last.op = "create_truck_load"
    /\ last.status = "ok"
    /\ \E p \in Products : FifoRequest(p)
    /\ Cardinality(truck_load_items) = 2
    /\ \E i, j \in DOMAIN batches :
          i < j /\ batches[j].expiry < batches[i].expiry /\ batches[j].remaining = 0

StockBefore(b) ==
    Received(b) + SumSet(MovementsOf(b), [m \in MovementsOf(b) |-> Signed(m)])
LoadedFrom(b) ==
    LET its == {it \in truck_load_items : it.batch = b}
    IN SumSet(its, [it \in its |-> it.loaded])
Finished == \A t \in Txs : txs[t].pc = "done"
Winners == {t \in Txs : txs[t].status = "ok"}

Racing(r) == txs[1].q <= r /\ txs[2].q <= r /\ txs[1].q + txs[2].q > r

StartsFinished == \A t \in Txs : txs[t].pc = "done"
StartWinners == {t \in Txs : txs[t].status = "ok"}

\* C11: of two concurrent start_reconciliation calls for one date exactly one
\* commits and the other answers Conflict; no state has two reconciliations
\* for the date, and every reconciliation item belongs to the one that exists.
C11_OneStartWins ==
    /\ Cardinality(RecFor(StartDate)) <= 1
    /\ \A ri \in rec_items : ri.rec \in RecFor(StartDate)
    /\ StartsFinished
        => /\ Cardinality(StartWinners) = 1
           /\ \A t \in Txs \ StartWinners : txs[t].status = "Conflict"

\* the loser had found no reconciliation and was stopped at its INSERT
C11_Witness ==
    /\ StartsFinished
    /\ Cardinality(StartWinners) = 1
    /\ \E t \in Txs \ StartWinners : txs[t].checked /\ txs[t].status = "Conflict"
    /\ rec_items # {}

\* ---------------------------------------------------------------- reconciliation gate
\* C12: finalize_reconciliation answers Validation and changes nothing while
\* the reconciliation's trucks_verified is below its trucks_out, and every
\* finalized reconciliation has trucks_verified = trucks_out.
C12_FinalizeNeedsAllVerified ==
    [][/\ (/\ last'.op = "finalize_reconciliation"
           /\ RecFor(last'.arg) # {}
           /\ recs[FirstRec(last'.arg)].status # "finalized"
           /\ recs[FirstRec(last'.arg)].trucks_verified
                 < recs[FirstRec(last'.arg)].trucks_out)
          => (last'.status = "Validation" /\ UNCHANGED dbvars)
       /\ \A r \in DOMAIN recs' :
             recs'[r].status = "finalized"
                => recs'[r].trucks_verified = recs'[r].trucks_out]_vars

\* ---------------------------------------------------------------- allocation movements
\* C13: every successful allocation of stock onto a truck load (manual or
\* FIFO) records, together with the batch decrement, a truck_load_out stock
\* movement for that batch with the allocated quantity.
C13_AllocationRecordsMovement ==
    [][(last'.op = "create_truck_load" /\ last'.status = "ok")
       => \A it \in truck_load_items' \ truck_load_items :
             \E mv \in stock_movements' \ stock_movements :
                 /\ mv.type = "truck_load_out"
                 /\ mv.batch = it.batch
                 /\ mv.quantity = it.loaded]_vars

\* ---------------------------------------------------------------- allowances
AllocatedSum(id) ==
    LET rows == {ta \in truck_allowances : ta.date = id}
    IN SumSet(rows, [ta \in rows |-> ta.amount])

\* C14: for every transport allowance, after any sequence of
\* allocate_to_trucks and update_truck_allocation calls, the sum of its truck
\* allocation amounts is at most its total_allowance.
C14_AllocationsWithinTotal ==
    \A id \in DOMAIN allowances : AllocatedSum(id) <= allowances[id].total

\* ---------------------------------------------------------------- sales
SaleItemsFrom(load, batch) ==
    {si \in sale_items :
        si.batch = batch /\ \E s \in sales : s.id = si.sale /\ s.load = load}
SoldFrom(load, batch) ==
    SumSet(SaleItemsFrom(load, batch),
           [si \in SaleItemsFrom(load, batch) |-> si.quantity])

\* C15: for every truck load and batch, the total quantity of the sale items
\* recorded against that load and batch is at most quantity_loaded -
\* quantity_returned, after any sequence of create_sale calls.
C15_SoldWithinTruckStock ==
    \A it \in truck_load_items :
        SoldFrom(it.load, it.batch) <= it.loaded - it.returned

SoldOnLoad(items, load) ==
    LET rows == {it \in items : it.load = load}
    IN SumSet(rows, [it \in rows |-> it.sold])
NewSaleQuantity ==
    LET rows == sale_items' \ sale_items
    IN SumSet(rows, [si \in rows |-> si.quantity])
NewSaleOutQuantity ==
    LET rows == {mv \in stock_movements' \ stock_movements : mv.type = "sale_out"}
    IN SumSet(rows, [mv \in rows |-> mv.quantity])

\* C16: a successful create_sale of q units from a truck load increases the
\* quantity_sold of that load's items by q in total and records sale_out
\* stock movements for q units, together with the sale rows.
C16_SaleUpdatesSoldAndLedger ==
    [][(last'.op = "create_sale" /\ last'.status = "ok")
       => \A s \in sales' \ sales :
             /\ SoldOnLoad(truck_load_items', s.load)
                  = SoldOnLoad(truck_load_items, s.load) + NewSaleQuantity
             /\ NewSaleOutQuantity = NewSaleQuantity]_vars

\* the items of the load that carry the product of the requested sale line
SellItems(load) ==
    {it \in truck_load_items :
        it.load = load /\ batches[it.batch].product = call.items[1].product_id}
Available(it) == it.loaded - it.sold - it.returned
SoldNow(batch) ==
    LET rows == {si \in sale_items' \ sale_items : si.batch = batch}
    IN SumSet(rows, [si \in rows |-> si.quantity])

\* C17: a sale line of q units of a product succeeds whenever the load's
\* total available quantity of the product is at least q, and it consumes the
\* earliest-expiry batch with available stock first, going on to later batches
\* when the earliest cannot cover q.
C17_SaleFifoAcrossBatches ==
    [][(last'.op = "create_sale" /\ Len(call.items) = 1 /\ SellLoads # {})
       => LET load == CHOOSE l \in SellLoads : TRUE
              mine == SellItems(load)
              q == call.items[1].quantity
          IN SumSet(mine, [it \in mine |-> Available(it)]) >= q
                => /\ last'.status = "ok"
                   /\ SumSet(mine, [it \in mine |-> SoldNow(it.batch)]) = q
                   /\ \A i, j \in mine :
                         (Before(i.batch, j.batch) /\ SoldNow(j.batch) > 0)
                            => SoldNow(i.batch) = Available(i)]_vars

\* ---------------------------------------------------------------- returns to stock
\* the truck_return_in movements that finalize_reconciliation posted for the
\* load of the item it
FinalizeReturns(it) ==
    {mv \in stock_movements :
        /\ mv.type = "truck_return_in"
        /\ mv.ref_type = "reconciliation"
        /\ mv.batch = it.batch
        /\ \E ri \in rec_items : ri.rec = mv.ref_id /\ ri.truck_load_id = it.load}
RestoredByFinalize(it) ==
    SumSet(FinalizeReturns(it), [mv \in FinalizeReturns(it) |-> mv.quantity])

\* C18: for every truck load item, the quantity added back to its batch on
\* its behalf by reconcile_truck_load (its quantity_returned) and by
\* finalize_reconciliation together never exceeds quantity_loaded -
\* quantity_sold, whichever of the two operations runs first.
C18_RestoredAtMostOnce ==
    \A it \in truck_load_items :
        it.returned + RestoredByFinalize(it) <= it.loaded - it.sold

\* what one finalize_reconciliation step adds to the batches of the load of
\* the reconciliation item ri
LoadBatches(ri) == {it.batch : it \in ItemsOf(ri.truck_load_id)} \cap DOMAIN batches
AddedBack(ri) ==
    SumSet(LoadBatches(ri),
           [b \in LoadBatches(ri) |-> batches'[b].remaining - batches[b].remaining])

\* C19: for every reconciliation item, the total quantity that
\* finalize_reconciliation adds back to batches for that truck equals the
\* items_returned recorded by verify_truck_return.
C19_FinalizeRestoresReturned ==
    [][(last'.op = "finalize_reconciliation" /\ last'.status = "ok")
       => \A ri \in rec_items :
             ri.rec = FirstRec(last'.arg) => AddedBack(ri) = ri.items_returned]_vars

\* the (reconciliation item, truck load item) pairs finalize posts a return for
ReturnPairs(rec) ==
    {p \in rec_items \X truck_load_items :
        /\ p[1].rec = rec
        /\ p[1].items_returned > 0
        /\ p[2].load = p[1].truck_load_id
        /\ p[2].loaded - p[2].sold > 0}
PairsOn(rec, b) == {p \in ReturnPairs(rec) : p[2].batch = b}

\* C20: a successful finalize_reconciliation adds, for every reconciliation
\* item with items_returned > 0 and each item of that truck's load with
\* quantity_loaded - quantity_sold > 0, that unsold quantity to the batch's
\* remaining_quantity and records one truck_return_in movement of the same
\* quantity referencing the reconciliation; reconciliation items with
\* items_returned = 0 cause no batch change and no movement.
C20_FinalizePostsUnsold ==
    [][(last'.op = "finalize_reconciliation" /\ last'.status = "ok")
       => LET id == FirstRec(last'.arg)
              new == stock_movements' \ stock_movements
          IN /\ \A b \in DOMAIN batches :
                   batches'[b].remaining - batches[b].remaining
                     = SumSet(PairsOn(id, b),
                              [p \in PairsOn(id, b) |-> p[2].loaded - p[2].sold])
             /\ Cardinality(new) = Cardinality(ReturnPairs(id))
             /\ \A mv \in new :
                   /\ mv.type = "truck_return_in"
                   /\ mv.ref_type = "reconciliation"
                   /\ mv.ref_id = id
             /\ \A p \in ReturnPairs(id) :
                   \E mv \in new :
                       mv.batch = p[2].batch /\ mv.quantity = p[2].loaded - p[2].sold]_vars

\* a finalized reconciliation of two loaded trucks, one verified with a
\* return and one without, whose only movement is the return of the first
C20_Witness ==
    /\ last.op = "finalize_reconciliation"
    /\ last.status = "ok"
    /\ \E r1, r2 \in rec_items :
          /\ r1.rec = FirstRec(last.arg) /\ r2.rec = FirstRec(last.arg)
          /\ r1.items_returned > 0
          /\ r2.items_returned = 0
          /\ \E i1, i2 \in truck_load_items :
                /\ i1.load = r1.truck_load_id /\ i2.load = r2.truck_load_id
                /\ i1.loaded > 0 /\ i2.loaded > 0
                /\ {[batch |-> mv.batch, quantity |-> mv.quantity, type |-> mv.type]
                      : mv \in stock_movements}
                     = {[batch |-> i1.batch, quantity |-> i1.loaded - i1.sold,
                         type |-> "truck_return_in"]}

\* ---------------------------------------------------------------- concurrent finalize
Closed == \A t \in Txs : txs[t].pc = "done"
CloseWinners == {t \in Txs : txs[t].status = "ok"}
ReturnedTo(rec, b) ==
    LET rows == {mv \in stock_movements :
                    /\ mv.type = "truck_return_in" /\ mv.ref_type = "reconciliation"
                    /\ mv.ref_id = rec /\ mv.batch = b}
    IN SumSet(rows, [mv \in rows |-> mv.quantity])

\* C21: when two finalize_reconciliation calls for one date run concurrently
\* and one of them succeeds, the other fails with Conflict, and the
\* stock-return postings are applied once: the truck_return_in movements of
\* the reconciliation carry, per batch, the unsold quantity once.
C21_OneFinalizeWins ==
    (Closed /\ CloseWinners # {})
        => /\ Cardinality(CloseWinners) = 1
           /\ \A t \in Txs \ CloseWinners : txs[t].status = "Conflict"
           /\ \A b \in DOMAIN batches :
                 ReturnedTo(FirstRec(StartDate), b)
                    = SumSet(PairsOn(FirstRec(StartDate), b),
                             [p \in PairsOn(FirstRec(StartDate), b)
                                 |-> p[2].loaded - p[2].sold])

\* ---------------------------------------------------------------- verified count
\* C22: in every committed state a reconciliation's trucks_verified equals
\* the number of its reconciliation items with is_verified = true; after two
\* concurrent verifications of two different trucks have committed it is 2.
C22_VerifiedCountMatches ==
    \A r \in DOMAIN recs :
        recs[r].trucks_verified
            = Cardinality({ri \in rec_items : ri.rec = r /\ ri.is_verified})

\* ---------------------------------------------------------------- start snapshot
\* the reconciliation items that the start_reconciliation step created
StartedRec == CHOOSE r \in DOMAIN recs' : recs'[r].date = last'.arg
Started == {ri \in rec_items' : ri.rec = StartedRec}
LoadsOn(date) == {l \in DOMAIN truck_loads : truck_loads[l].date = date}

\* C23: a successful start_reconciliation creates exactly one reconciliation
\* item per truck that has a truck load on the date, so the number of items
\* equals trucks_out, each with is_verified = false and items_returned =
\* items_discarded = 0, and trucks_verified = 0, whatever sales exist.
C23_OneItemPerTruck ==
    [][(last'.op = "start_reconciliation" /\ last'.status = "ok")
       => LET rec == recs'[StartedRec]
          IN /\ \A l \in LoadsOn(last'.arg) :
                   Cardinality({ri \in Started : ri.truck = truck_loads[l].truck}) = 1
             /\ Cardinality(Started) = rec.trucks_out
             /\ rec.trucks_verified = 0
             /\ \A ri \in Started :
                   /\ ~ri.is_verified
                   /\ ri.items_returned = 0
                   /\ ri.items_discarded = 0]_vars

\* C24: the items_loaded of each reconciliation item created by
\* start_reconciliation equals the sum of quantity_loaded over the items of
\* that truck's load, whatever the number of sales recorded against the load.
C24_ItemsLoadedIsLoadSum ==
    [][(last'.op = "start_reconciliation" /\ last'.status = "ok")
       => \A ri \in Started : ri.items_loaded = LoadedSum(ri.truck_load_id)]_vars

SalesOf(truck, date) == {s \in sales : s.truck = truck /\ s.date = date}

\* C25: for each reconciliation item created by start_reconciliation,
\* sales_amount is the sum of total_amount and payments_collected the sum of
\* amount_paid over the truck's sales of the date, each sale counted once,
\* and pending_payments = sales_amount - payments_collected.
C25_SalesCountedOnce ==
    [][(last'.op = "start_reconciliation" /\ last'.status = "ok")
       => \A ri \in Started :
             LET ss == SalesOf(ri.truck, last'.arg)
             IN /\ ri.sales_amount = SumSet(ss, [s \in ss |-> s.total])
                /\ ri.payments_collected = SumSet(ss, [s \in ss |-> s.paid])
                /\ ri.pending_payments = ri.sales_amount - ri.payments_collected]_vars


\* C26: a discrepancy never blocks verification: when the reconciliation of the
\* date is in_progress and the truck has an item in it (the call is not answered
\* NotFound), verify_truck_return succeeds for every combination of returned and
\* discarded quantities and leaves a verified item of that reconciliation.
C26_DiscrepancyNeverBlocks ==
    [][(/\ last'.op = "verify_truck_return"
        /\ RecFor(last'.arg) # {}
        /\ recs[FirstRec(last'.arg)].status = "in_progress"
        /\ last'.status # "NotFound")
       => /\ last'.status = "ok"
          /\ \E ri \in rec_items' : ri.rec = FirstRec(last'.arg) /\ ri.is_verified]_vars


\* C27: verify_truck_return leaves all stock state unchanged: a verification,
\* successful or failed, creates or modifies no batch, no truck load item and no
\* stock movement.
C27_VerifyMovesNoStock ==
    [][last'.op = "verify_truck_return"
       => UNCHANGED <<batches, truck_load_items, stock_movements>>]_vars
\* a truck with loaded stock has been verified with returned items
C27_Witness ==
    /\ last.op = "verify_truck_return"
    /\ last.status = "ok"
    /\ \E ri \in rec_items :
          /\ ri.is_verified
          /\ ri.items_returned > 0
          /\ ItemsOf(ri.truck_load_id) # {}


\* C28: finalization is terminal: once a reconciliation is finalized, every
\* later step leaves its row (status, totals, net_profit) and its items as they
\* are, and a later verify_truck_return or finalize_reconciliation on its date
\* fails with Conflict.
C28_FinalizedIsTerminal ==
    [][\A r \in DOMAIN recs :
          recs[r].status = "finalized"
          => /\ r \in DOMAIN recs'
             /\ recs'[r] = recs[r]
             /\ {ri \in rec_items' : ri.rec = r} = {ri \in rec_items : ri.rec = r}
             /\ (/\ last'.op \in {"verify_truck_return", "finalize_reconciliation"}
                 /\ last'.arg = recs[r].date)
                => last'.status = "Conflict"]_vars
\* a truck of a finalized reconciliation has been presented for verification again
C28_Witness ==
    /\ last.op = "verify_truck_return"
    /\ last.status = "Conflict"
    /\ \E r \in DOMAIN recs :
          /\ recs[r].status = "finalized"
          /\ recs[r].date = last.arg
          /\ \E ri \in rec_items : ri.rec = r /\ ri.is_verified


\* C29: in every state where the reconciliation of a date is finalized, every
\* truck load of that date has a reconciliation item in it, including the
\* loads created after start_reconciliation ran for the date.
C29_FinalizedCoversLoads ==
    \A r \in DOMAIN recs :
        recs[r].status = "finalized"
        => \A l \in LoadsOn(recs[r].date) :
              \E ri \in rec_items : ri.rec = r /\ ri.truck_load_id = l


\* C30: create_truck_load is atomic over its whole item list: when any item
\* fails, no truck load row and no truck load item is left and every batch keeps
\* the remaining_quantity it had before the call, the batches touched by
\* earlier items of the request included.
C30_LoadIsAtomic ==
    [][(last'.op = "create_truck_load" /\ last'.status # "ok")
       => UNCHANGED <<truck_loads, truck_load_items, batches>>]_vars
\* a request failed at its second item after its first item had found stock
C30_Witness ==
    /\ last.op = "create_truck_load"
    /\ last.status \in {"NotFound", "Validation", "Conflict"}
    /\ Len(call.items) = 2
    /\ truck_loads = <<>>
    /\ truck_load_items = {}
    /\ LET first == call.items[1]
       IN /\ first.product_id = "none"
          /\ first.batch_id \in DOMAIN batches
          /\ first.quantity_loaded <= batches[first.batch_id].remaining


\* C31: a non-positive quantity is rejected and changes nothing: a successful
\* create_truck_load leaves only new items with quantity_loaded > 0 (at least
\* one) and never raises a batch's remaining_quantity; a successful
\* reconcile_truck_load leaves no negative quantity_returned and never lowers a
\* batch's remaining_quantity.
NewLoadItems == truck_load_items' \ truck_load_items
C31_NonPositiveRejected ==
    [][/\ (last'.op = "create_truck_load" /\ last'.status = "ok")
          => /\ NewLoadItems # {}
             /\ \A it \in NewLoadItems : it.loaded > 0
       /\ last'.op = "create_truck_load"
          => \A b \in DOMAIN batches : batches'[b].remaining <= batches[b].remaining
       /\ (last'.op = "reconcile_truck_load" /\ last'.status = "ok")
          => \A it \in truck_load_items' : it.returned >= 0
       /\ last'.op = "reconcile_truck_load"
          => \A b \in DOMAIN batches : batches'[b].remaining >= batches[b].remaining]_vars


\* C32: reconcile_truck_load of a load that is still loaded fails with NotFound
\* when the first entry it cannot apply names a batch that is not part of the
\* load, and with Validation when that entry would make quantity_sold +
\* quantity_returned exceed quantity_loaded; a failed call leaves the status of
\* the load, every item and every batch as they were, the entries processed
\* before the failing one included.
ReturnedLoad == CHOOSE l \in DOMAIN truck_loads : TRUE
NotInLoad(e) == ~HasItem(truck_load_items, ReturnedLoad, e.batch_id)
OverReturn(e) ==
    \E it \in ItemsOf(ReturnedLoad) :
        it.batch = e.batch_id /\ it.sold + e.quantity_returned > it.loaded
Offending(i) == NotInLoad(call.returns[i]) \/ OverReturn(call.returns[i])
FirstOffending ==
    {i \in DOMAIN call.returns :
        /\ Offending(i)
        /\ \A j \in 1..(i - 1) : ~Offending(j)
        /\ \A j, k \in 1..(i - 1) :
              j # k => call.returns[j].batch_id # call.returns[k].batch_id}
C32_FailedReturnChangesNothing ==
    [][(/\ last'.op = "reconcile_truck_load"
        /\ DOMAIN truck_loads # {}
        /\ truck_loads[ReturnedLoad].status = "loaded")
       => /\ \A i \in FirstOffending :
                last'.status = IF NotInLoad(call.returns[i]) THEN "NotFound"
                               ELSE "Validation"
          /\ last'.status # "ok"
             => UNCHANGED <<truck_loads, truck_load_items, batches>>]_vars
\* a request failed at its second entry after its first entry had been applied
C32_Witness ==
    /\ last.op = "reconcile_truck_load"
    /\ last.status \in {"NotFound", "Validation"}
    /\ Len(call.returns) = 2
    /\ DOMAIN truck_loads # {}
    /\ truck_loads[ReturnedLoad].status = "loaded"
    /\ ~Offending(1)
    /\ call.returns[1].quantity_returned > 0
    /\ Offending(2)


\* C33: a successful reconcile_truck_load sets, for each entry, the item's
\* quantity_returned, adds exactly the returned quantities to the batch's
\* remaining_quantity, records a truck_return_in movement of that quantity for
\* the batch, and sets the status of the load to reconciled.
EntriesOf(b) == {i \in DOMAIN call.returns : call.returns[i].batch_id = b}
ReturnedBy(b) ==
    SumSet(EntriesOf(b), [i \in EntriesOf(b) |-> call.returns[i].quantity_returned])
C33_ReturnPostsStock ==
    [][(last'.op = "reconcile_truck_load" /\ last'.status = "ok")
       => /\ truck_loads'[ReturnedLoad].status = "reconciled"
          /\ \A b \in DOMAIN batches :
                batches'[b].remaining = batches[b].remaining + ReturnedBy(b)
          /\ \A i \in DOMAIN call.returns :
                LET e == call.returns[i]
                IN /\ \E it \in truck_load_items' :
                         /\ it.load = ReturnedLoad
                         /\ it.batch = e.batch_id
                         /\ it.returned \in
                               {call.returns[j].quantity_returned : j \in EntriesOf(e.batch_id)}
                   /\ \E m \in stock_movements' \ stock_movements :
                         /\ m.batch = e.batch_id
                         /\ m.type = "truck_return_in"
                         /\ m.quantity = e.quantity_returned]_vars


\* C34: reconcile_truck_load on a load whose status is reconciled fails with
\* Conflict and changes nothing; the status of a truck load is loaded or
\* reconciled and, once reconciled, never moves back while the load exists.
C34_ReconciledOnce ==
    [][/\ \A l \in DOMAIN truck_loads' :
             truck_loads'[l].status \in {"loaded", "reconciled"}
       /\ \A l \in DOMAIN truck_loads :
             (truck_loads[l].status = "reconciled" /\ l \in DOMAIN truck_loads')
             => truck_loads'[l].status = "reconciled"
       /\ (/\ last'.op = "reconcile_truck_load"
           /\ DOMAIN truck_loads # {}
           /\ truck_loads[ReturnedLoad].status = "reconciled")
          => /\ last'.status = "Conflict"
             /\ UNCHANGED dbvars]_vars
\* a reconciled load has been presented with returns again
C34_Witness ==
    /\ last.op = "reconcile_truck_load"
    /\ last.status = "Conflict"
    /\ call.returns # <<>>
    /\ \A i \in DOMAIN call.returns : ~Offending(i)
    /\ truck_loads[ReturnedLoad].status = "reconciled"


\* C35: a reconciled truck load is closed to sales: once the status of a load
\* is reconciled no step adds a sale to it (create_sale against it is
\* rejected) and none of its truck load items changes.
SalesOn(ss, l) == {s \in ss : s.load = l}
C35_ReconciledClosedToSales ==
    [][\A l \in DOMAIN truck_loads :
          truck_loads[l].status = "reconciled"
          => /\ SalesOn(sales', l) = SalesOn(sales, l)
             /\ {it \in truck_load_items' : it.load = l} = ItemsOf(l)]_vars


\* C36: delete_truck_load is the inverse of allocation: it is refused with
\* Conflict, the state unchanged, when a sale references the load; otherwise
\* it succeeds, adds quantity_loaded - quantity_returned of each item back to
\* its batch and removes the load and its items, so that every batch is back at
\* the remaining_quantity it had before the load was created (here: its full
\* quantity), whether or not the load was reconciled in between.
RestoredTo(b) ==
    LET mine == {it \in ItemsOf(ReturnedLoad) : it.batch = b}
    IN SumSet(mine, [it \in mine |-> it.loaded - it.returned])
C36_DeleteInvertsLoad ==
    [][(last'.op = "delete_truck_load" /\ DOMAIN truck_loads # {})
       => IF SalesOn(sales, ReturnedLoad) # {}
          THEN last'.status = "Conflict" /\ UNCHANGED dbvars
          ELSE /\ last'.status = "ok"
               /\ ReturnedLoad \notin DOMAIN truck_loads'
               /\ \A it \in truck_load_items' : it.load # ReturnedLoad
               /\ \A b \in DOMAIN batches :
                     /\ batches'[b].remaining = batches[b].remaining + RestoredTo(b)
                     /\ batches'[b].remaining = batches'[b].quantity]_vars


\* C37: every response that reports a truck load (create_truck_load,
\* get_truck_load, list_truck_loads, reconcile_truck_load) reports the
\* lost/damaged quantities, per item and in the totals, as 0 while the status
\* of the load is loaded and as quantity_loaded - quantity_sold -
\* quantity_returned once it is reconciled.
LostDamaged(status, loaded, sold, returned) ==
    IF status = "reconciled" THEN loaded - sold - returned ELSE 0
ReportsLosses(body) ==
    /\ \A it \in body.items :
          it.quantity_lost_damaged =
              LostDamaged(body.status, it.loaded, it.sold, it.returned)
    /\ body.total_lost_damaged =
          SumSet(body.items,
                 [it \in body.items |->
                     LostDamaged(body.status, it.loaded, it.sold, it.returned)])
C37_LossesOnlyOnceReconciled ==
    [][/\ (last'.op = "get_truck_load" /\ last'.status = "ok")
          => ReportsLosses(last'.arg.body)
       /\ last'.op = "list_truck_loads"
          => \A row \in last'.arg :
                row.total_lost_damaged =
                    LostDamaged(row.status, row.total_loaded, row.total_sold,
                                row.total_returned)
       /\ (last'.op = "create_truck_load" /\ last'.status = "ok")
          => \A l \in DOMAIN truck_loads' \ DOMAIN truck_loads :
                ReportsLosses(CreatedResponse(truck_load_items', l))
       /\ (last'.op = "reconcile_truck_load" /\ last'.status = "ok")
          => ReportsLosses(fetch_truck_load_by_id(truck_loads', truck_load_items',
                                                  ReturnedLoad))]_vars


\* C38: create_stock_adjustment of type adjustment with a delta d # 0 on an
\* existing batch is rejected, the batch unchanged and no movement recorded,
\* when d is negative and its magnitude exceeds the current remaining_quantity;
\* otherwise, when it succeeds, it changes both the initial quantity and the
\* remaining_quantity of the batch by d and records one adjustment movement
\* of d.
C38_AdjustmentByDelta ==
    [][(/\ last'.op = "create_stock_adjustment"
        /\ call.type = "adjustment"
        /\ call.quantity # 0
        /\ call.batch \in DOMAIN batches)
       => LET b == call.batch
              d == call.quantity
          IN IF d < 0 /\ -d > Halves * batches[b].remaining
             THEN /\ last'.status # "ok"
                  /\ UNCHANGED <<batches, stock_movements>>
             ELSE last'.status = "ok"
                  => /\ Halves * (batches'[b].quantity - batches[b].quantity) = d
                     /\ Halves * (batches'[b].remaining - batches[b].remaining) = d
                     /\ \E m \in stock_movements' :
                           /\ stock_movements' = stock_movements \cup {m}
                           /\ m \notin stock_movements
                           /\ m.batch = b
                           /\ m.type = "adjustment"
                           /\ m.quantity = d]_vars


\* C39: a batch is never deleted while anything still refers to it: no step
\* removes a batch that has a stock movement, a truck load item or a sale item
\* referencing it.
RefersTo(b) ==
    \/ BatchReferenced(truck_load_items, stock_movements, b)
    \/ \E si \in sale_items : si.batch = b
C39_ReferencedBatchStays ==
    [][\A b \in DOMAIN batches : RefersTo(b) => b \in DOMAIN batches']_vars

====
